---- MODULE Spec2Model ----
(***************************************************************************)
(* A model of the request body middleware of go-request-body               *)
(* (src/requestbody.go): the handler wrapper RequestBodyHandler, the       *)
(* per-request options and their override channel SetRequestBodyOption,    *)
(* and the lazily initialised body reader lazyReader (Read, init, Close,   *)
(* handleError).                                                           *)
(*                                                                         *)
(* Strings that the code inspects character by character (the              *)
(* Content-Encoding header, the encoding names) are sequences of           *)
(* one-character strings.  Byte streams are sequences of naturals.         *)
(***************************************************************************)
EXTENDS Integers, Sequences, FiniteSets, TLC

(***************************************************************************)
(* Bounds of the model.                                                    *)
(***************************************************************************)
\* Largest buffer length len(p) a caller passes to Read.
MaxBuf == 2
\* Number of Read and Close calls made on one body.
MaxCalls == 3
\* Number of SetRequestBodyOption calls made for one request.
MaxOverrides == 1

(***************************************************************************)
(* Strings                                                                 *)
(***************************************************************************)
S_gzip == <<"g", "z", "i", "p">>
S_xgzip == <<"x", "-", "g", "z", "i", "p">>
S_deflate == <<"d", "e", "f", "l", "a", "t", "e">>
S_br == <<"b", "r">>
S_empty == <<>>

\* unicode.IsSpace restricted to the characters the model's headers use.
IsSpace(c) == c \in {" ", "\t"}

\* strings.TrimSpace: drop leading and trailing white space.
RECURSIVE TrimLeft(_)
TrimLeft(s) ==
    IF s # <<>> /\ IsSpace(Head(s)) THEN TrimLeft(Tail(s)) ELSE s

RECURSIVE TrimRight(_)
TrimRight(s) ==
    IF s # <<>> /\ IsSpace(s[Len(s)])
    THEN TrimRight(SubSeq(s, 1, Len(s) - 1))
    ELSE s

TrimSpace(s) == TrimRight(TrimLeft(s))

\* strings.Split(s, ","): the substrings between the commas, in order.
RECURSIVE Split(_)
Split(s) ==
    IF \E i \in 1..Len(s) : s[i] = ","
    THEN LET i == CHOOSE k \in 1..Len(s) :
                     s[k] = "," /\ \A j \in 1..(k - 1) : s[j] # ","
         IN  <<SubSeq(s, 1, i - 1)>> \o Split(SubSeq(s, i + 1, Len(s)))
    ELSE <<s>>

\* slices.Reverse
Reverse(s) == [i \in 1..Len(s) |-> s[Len(s) + 1 - i]]

\* strings.Join(names, ", ")
RECURSIVE Join(_)
Join(names) ==
    IF names = <<>> THEN <<>>
    ELSE IF Len(names) = 1 THEN names[1]
    ELSE names[1] \o <<",", " ">> \o Join(Tail(names))

(***************************************************************************)
(* Byte streams and the two decoders.                                      *)
(*                                                                         *)
(* A stream is the bytes it will produce and the condition it ends with:   *)
(* "EOF", or the error its Read returns once the bytes are used up.        *)
(* compress/gzip and compress/flate are modelled by two codecs that keep   *)
(* what the middleware depends on: gzip has a header that its constructor  *)
(* reads and rejects (gzip.NewReader fails), its payload can decode to     *)
(* more bytes than it holds; flate's constructor never fails and corrupt   *)
(* input shows up as a read error; the two codecs do not commute.          *)
(***************************************************************************)
GzipMagic == 9

MkStream(data, end) == [data |-> data, end |-> end]

\* gzip writer: header, then the payload with each pair of zero bytes packed
\* into the symbol 0 and every other byte b written as b + 1.
RECURSIVE GzPack(_)
GzPack(d) ==
    IF d = <<>> THEN <<>>
    ELSE IF Len(d) >= 2 /\ d[1] = 0 /\ d[2] = 0
         THEN <<0>> \o GzPack(SubSeq(d, 3, Len(d)))
         ELSE <<d[1] + 1>> \o GzPack(Tail(d))

GZipEncode(d) == <<GzipMagic>> \o GzPack(d)

RECURSIVE GzUnpack(_)
GzUnpack(w) ==
    IF w = <<>> THEN <<>>
    ELSE (IF w[1] = 0 THEN <<0, 0>> ELSE <<w[1] - 1>>) \o GzUnpack(Tail(w))

\* flate writer: every byte b written as b + 1; the symbol 0 is never written.
DeflateEncode(d) == [i \in 1..Len(d) |-> d[i] + 1]

\* Length of the longest prefix of w without the symbol 0.
RECURSIVE ValidPrefix(_)
ValidPrefix(w) ==
    IF w = <<>> \/ w[1] = 0 THEN 0 ELSE 1 + ValidPrefix(Tail(w))

\* GZipEncodingReader: gzip.NewReader reads the header from r and fails
\* when it is missing or wrong.
GZipEncodingReader(in) ==
    IF in.data # <<>> /\ in.data[1] = GzipMagic
    THEN [ok |-> TRUE, stream |-> MkStream(GzUnpack(Tail(in.data)), in.end)]
    ELSE [ok |-> FALSE, stream |-> in]

\* DeflateEncodingReader: flate.NewReader never fails; a corrupt symbol
\* ends the decoded stream with a read error.
DeflateEncodingReader(in) ==
    LET n == ValidPrefix(in.data)
        dec == [i \in 1..n |-> in.data[i] - 1]
    IN  [ok |-> TRUE,
         stream |-> MkStream(dec, IF n < Len(in.data) THEN "corrupt" ELSE in.end)]

\* type EncodingReader func(r io.Reader) (io.ReadCloser, error)
EncodingReader(kind, in) ==
    IF kind = "GZipEncodingReader" THEN GZipEncodingReader(in)
    ELSE DeflateEncodingReader(in)

ReaderKinds == {"GZipEncodingReader", "DeflateEncodingReader"}

\* What a client does to produce a body: apply the encodings in order.
RECURSIVE EncodeAll(_, _)
EncodeAll(kinds, d) ==
    IF kinds = <<>> THEN d
    ELSE EncodeAll(Tail(kinds),
                   IF Head(kinds) = "GZipEncodingReader"
                   THEN GZipEncode(d) ELSE DeflateEncode(d))

\* The stream a chain of readers produces, the first reader wrapping raw.
RECURSIVE PipeStream(_, _)
PipeStream(layers, raw) ==
    IF layers = <<>> THEN raw
    ELSE PipeStream(Tail(layers), EncodingReader(Head(layers), raw).stream)

(***************************************************************************)
(* Errors.  Every error value has the same four fields.                    *)
(***************************************************************************)
MkErr(kind, limit, encoding, cause) ==
    [kind |-> kind, limit |-> limit, encoding |-> encoding, cause |-> cause]

Nil == MkErr("nil", 0, <<>>, "none")
EOF == MkErr("EOF", 0, <<>>, "none")
\* An error of the underlying stream or of a decoder: not a RequestBodyError.
RawError(cause) == MkErr("raw", 0, <<>>, cause)
\* *http.MaxBytesError, returned by the reader http.MaxBytesReader builds.
MaxBytesError(limit) == MkErr("MaxBytesError", limit, <<>>, "none")

BadRequestError(cause) == MkErr("BadRequestError", 0, <<>>, cause)
RequestContentTooLargeError(limit) ==
    MkErr("RequestContentTooLargeError", limit, <<>>, "none")
RequestContentLengthRequiredError ==
    MkErr("RequestContentLengthRequiredError", 0, <<>>, "none")
RequestUnsupportedMediaTypeError(encoding) ==
    MkErr("RequestUnsupportedMediaTypeError", 0, encoding, "none")

\* The types that implement the interface RequestBodyError.
IsRequestBodyError(e) ==
    e.kind \in {"BadRequestError", "RequestContentTooLargeError",
                "RequestContentLengthRequiredError",
                "RequestUnsupportedMediaTypeError"}

StatusBadRequest == 400
StatusLengthRequired == 411
StatusRequestEntityTooLarge == 413
StatusUnsupportedMediaType == 415
StatusTeapot == 418
StatusOK == 200
StatusInternalServerError == 500

RecommendedStatusCode(e) ==
    CASE e.kind = "BadRequestError" -> StatusBadRequest
      [] e.kind = "RequestContentTooLargeError" -> StatusRequestEntityTooLarge
      [] e.kind = "RequestContentLengthRequiredError" -> StatusLengthRequired
      [] e.kind = "RequestUnsupportedMediaTypeError" -> StatusUnsupportedMediaType

(***************************************************************************)
(* Options.  An Option is a record naming the constructor that made it     *)
(* and its arguments; apply is split into its effect on the fields of the  *)
(* options struct and its effect on the map supportedEncodings refers to.  *)
(***************************************************************************)
MkOption(op, n, b, name, reader, handler) ==
    [op |-> op, n |-> n, b |-> b, name |-> name, reader |-> reader,
     handler |-> handler]

ContentLengthLimit(maxContentLength) ==
    MkOption("ContentLengthLimit", maxContentLength, FALSE, <<>>, "none", "nil")
RequireContentLength(require) ==
    MkOption("RequireContentLength", 0, require, <<>>, "none", "nil")
SupportEncoding(name, reader) ==
    MkOption("SupportEncoding", 0, FALSE, name, reader, "nil")
DisableEncoding(name) ==
    MkOption("DisableEncoding", 0, FALSE, name, "none", "nil")
HandleRequestBodyError(handler) ==
    MkOption("HandleRequestBodyError", 0, FALSE, <<>>, "none", handler)
ReturnOnError ==
    MkOption("ReturnOnError", 0, FALSE, <<>>, "none", "nil")

\* The error handlers: the default one, an application's own, and nil.
Handlers == {"StatusOnlyRequestBodyErrorHandler", "Custom", "nil"}

\* type encoding struct { reader; alias }
MkEncoding(reader, alias) == [reader |-> reader, alias |-> alias]

\* The map literal of RequestBodyHandler.
DefaultEncodings ==
    (S_gzip :> MkEncoding("GZipEncodingReader", FALSE))
    @@ (S_xgzip :> MkEncoding("GZipEncodingReader", TRUE))
    @@ (S_deflate :> MkEncoding("DeflateEncodingReader", FALSE))

\* m[name] = v
MapPut(m, name, v) ==
    [k \in (DOMAIN m) \cup {name} |-> IF k = name THEN v ELSE m[k]]

\* delete(m, name)
MapDelete(m, name) == [k \in (DOMAIN m) \ {name} |-> m[k]]

\* The assignments an Option's function makes to the fields of *options.
ApplyFields(opt, o) ==
    CASE opt.op = "ContentLengthLimit" -> [o EXCEPT !.maxContentLength = opt.n]
      [] opt.op = "RequireContentLength" ->
            [o EXCEPT !.requireContentLength = opt.b]
      [] opt.op = "HandleRequestBodyError" -> [o EXCEPT !.handleError = opt.handler]
      [] opt.op = "ReturnOnError" -> [o EXCEPT !.handleError = "nil"]
      [] OTHER -> o

\* The writes an Option's function makes to the map opts.supportedEncodings.
ApplyMap(opt, m) ==
    CASE opt.op = "SupportEncoding" ->
            MapPut(m, opt.name, MkEncoding(opt.reader, FALSE))
      [] opt.op = "DisableEncoding" -> MapDelete(m, opt.name)
      [] OTHER -> m

\* (for comparison) the options applied from the last to the first
RECURSIVE ApplyAllFieldsFirstWins(_, _)
ApplyAllFieldsFirstWins(opts, o) ==
    IF opts = <<>> THEN o
    ELSE ApplyFields(Head(opts), ApplyAllFieldsFirstWins(Tail(opts), o))

\* for _, opt := range opts { opt.apply(o) }: the struct after the loop.
RECURSIVE ApplyAllFields(_, _)
ApplyAllFields(opts, o) ==
    IF opts = <<>> THEN o
    ELSE ApplyAllFields(Tail(opts), ApplyFields(Head(opts), o))

\* for _, opt := range opts { opt.apply(o) }: the heap of maps after the loop.
\* o.supportedEncodings is a reference into the heap.
RECURSIVE ApplyAllMaps(_, _, _)
ApplyAllMaps(opts, ref, heap) ==
    IF opts = <<>> THEN heap
    ELSE ApplyAllMaps(Tail(opts), ref,
                      [heap EXCEPT ![ref] = ApplyMap(Head(opts), heap[ref])])

(***************************************************************************)
(* Sorting of names (sort.Strings): byte-wise lexicographic order.         *)
(***************************************************************************)
\* The characters of the model in increasing byte value.
Alphabet ==
    <<"\t", " ", ",", "-", "a", "b", "d", "e", "f", "g", "i", "l", "p", "r",
      "t", "x", "z">>

Rank(c) == CHOOSE i \in 1..Len(Alphabet) : Alphabet[i] = c

RECURSIVE StrLess(_, _)
StrLess(a, b) ==
    IF b = <<>> THEN FALSE
    ELSE IF a = <<>> THEN TRUE
    ELSE IF Head(a) # Head(b) THEN Rank(Head(a)) < Rank(Head(b))
    ELSE StrLess(Tail(a), Tail(b))

RECURSIVE SortStrings(_)
SortStrings(S) ==
    IF S = {} THEN <<>>
    ELSE LET m == CHOOSE x \in S : \A y \in S \ {x} : StrLess(x, y)
         IN  <<m>> \o SortStrings(S \ {m})

\* (for comparison) the header listing the aliases too
SupportedNamesWithAliases(m) == Join(SortStrings(DOMAIN m))

\* The value RequestBodyHandler sets the Accept-Encoding header to.
SupportedNames(m) ==
    Join(SortStrings({name \in DOMAIN m : ~m[name].alias}))

\* (for comparison) the tokens of the header without strings.TrimSpace
EncodingTokensUntrimmed(contentEncoding) ==
    IF contentEncoding = <<>> THEN <<>> ELSE Split(contentEncoding)

(***************************************************************************)
(* lazyReader.init: the function passed to once.Do.                        *)
(***************************************************************************)
\* The tokens of the Content-Encoding header, each trimmed.
EncodingTokens(contentEncoding) ==
    IF contentEncoding = <<>> THEN <<>>
    ELSE LET parts == Split(contentEncoding)
         IN  [i \in 1..Len(parts) |-> TrimSpace(parts[i])]

\* The loop over the tokens: the readers of the supported encodings in header
\* order, or the first token that is not in the map.
RECURSIVE LookupEncodings(_, _, _)
LookupEncodings(tokens, m, acc) ==
    IF tokens = <<>> THEN [ok |-> TRUE, encodings |-> acc, encoding |-> <<>>]
    ELSE IF Head(tokens) \in DOMAIN m
         THEN LookupEncodings(Tail(tokens), m, Append(acc, m[Head(tokens)].reader))
         ELSE [ok |-> FALSE, encodings |-> acc, encoding |-> Head(tokens)]

\* (for comparison) the readers applied in the order of the header
DecodeInHeaderOrder(encodings) == encodings

\* The order in which init applies the readers of the header's encodings.
DecodeOrder(encodings) == Reverse(encodings)

\* The loop that wraps the reader: the chain built, the constructors called,
\* and whether one of them failed.
RECURSIVE WrapReaders(_, _, _, _)
WrapReaders(encodings, stream, layers, called) ==
    IF encodings = <<>>
    THEN [ok |-> TRUE, layers |-> layers, called |-> called]
    ELSE LET w == EncodingReader(Head(encodings), stream)
         IN  IF w.ok
             THEN WrapReaders(Tail(encodings), w.stream,
                              Append(layers, Head(encodings)),
                              Append(called, Head(encodings)))
             ELSE [ok |-> FALSE, layers |-> layers,
                   called |-> Append(called, Head(encodings))]

\* The value of the field reader: a chain of decoding readers over the raw
\* body, inside an http.MaxBytesReader when limited.  n and err are the
\* MaxBytesReader's remaining count and sticky error, off the number of
\* decoded bytes already taken from the chain, failed whether the chain has
\* returned the error its stream ends with.
MkReader(layers, limited, limit) ==
    [layers |-> layers, limited |-> limited, limit |-> limit, n |-> limit,
     err |-> Nil, off |-> 0, failed |-> FALSE]

\* The reader the middleware starts with: r.Body itself.
RawReader == MkReader(<<>>, FALSE, 0)

\* (for comparison) init going through its checks whatever the content length
NeverSkipsBody(lr) == FALSE

\* If the content length is zero, we don't need to process the body.
SkipsBody(lr) == lr.contentLength = 0

\* (for comparison) init without the check of the required content length
LengthNeverMissing(lr) == FALSE

\* Fail if content length not provided but is required.
LengthMissing(lr) == lr.contentLength < 0 /\ lr.options.requireContentLength

\* (for comparison) the check with >= in place of >
MeetsLimit(lr) ==
    lr.options.maxContentLength > -1
    /\ lr.contentLength >= lr.options.maxContentLength

\* Fail fast if content length exceeds the maximum allowed limit.
ExceedsLimit(lr) ==
    lr.options.maxContentLength > -1
    /\ lr.contentLength > lr.options.maxContentLength

\* (for comparison) init never wrapping the chain in http.MaxBytesReader
NeverLimitsReader(lr) == FALSE

\* Whether init wraps the chain in http.MaxBytesReader.
LimitsReader(lr) == lr.options.maxContentLength > 0

\* (for comparison) init storing the readers built before the constructor
\* that failed
ConstructorFailedKeepsReaders(lr, layers) ==
    [lr EXCEPT !.initErr = BadRequestError("constructor"),
               !.reader = MkReader(layers, LimitsReader(lr),
                                   lr.options.maxContentLength)]

\* A constructor has returned an error: r.initErr = &BadRequestError{...} and
\* return, r.reader is not assigned.
ConstructorFailed(lr, layers) ==
    [lr EXCEPT !.initErr = BadRequestError("constructor")]

\* (for comparison) init looking at the header before the content length
InitFuncHeaderFirst(lr, heap, raw) ==
    LET look == LookupEncodings(EncodingTokens(lr.contentEncoding),
                                heap[lr.options.supportedEncodings], <<>>)
    IN  IF SkipsBody(lr) THEN [lr |-> lr, called |-> <<>>]
        ELSE IF ~look.ok
        THEN [lr |-> [lr EXCEPT !.initErr =
                          RequestUnsupportedMediaTypeError(look.encoding)],
              called |-> <<>>]
        ELSE IF LengthMissing(lr)
        THEN [lr |-> [lr EXCEPT !.initErr = RequestContentLengthRequiredError],
              called |-> <<>>]
        ELSE IF ExceedsLimit(lr)
        THEN [lr |-> [lr EXCEPT !.initErr =
                          RequestContentTooLargeError(lr.options.maxContentLength)],
              called |-> <<>>]
        ELSE LET w == WrapReaders(DecodeOrder(look.encodings), raw, <<>>, <<>>)
             IN  IF ~w.ok
                 THEN [lr |-> ConstructorFailed(lr, w.layers),
                       called |-> w.called]
                 ELSE [lr |-> [lr EXCEPT !.reader =
                                   MkReader(w.layers, LimitsReader(lr),
                                            lr.options.maxContentLength)],
                       called |-> w.called]

\* The body of the function init passes to once.Do: the lazyReader after it
\* and the constructors it called.  heap holds the maps, raw is the stream
\* of the request's body.
InitFunc(lr, heap, raw) ==
    IF SkipsBody(lr) THEN [lr |-> lr, called |-> <<>>]
    ELSE IF LengthMissing(lr)
    THEN [lr |-> [lr EXCEPT !.initErr = RequestContentLengthRequiredError],
          called |-> <<>>]
    ELSE IF ExceedsLimit(lr)
    THEN [lr |-> [lr EXCEPT !.initErr =
                      RequestContentTooLargeError(lr.options.maxContentLength)],
          called |-> <<>>]
    ELSE LET look == LookupEncodings(EncodingTokens(lr.contentEncoding),
                                     heap[lr.options.supportedEncodings], <<>>)
         IN  IF ~look.ok
             THEN [lr |-> [lr EXCEPT !.initErr =
                               RequestUnsupportedMediaTypeError(look.encoding)],
                   called |-> <<>>]
             ELSE LET w == WrapReaders(DecodeOrder(look.encodings), raw,
                                       <<>>, <<>>)
                  IN  IF ~w.ok
                      THEN [lr |-> ConstructorFailed(lr, w.layers),
                            called |-> w.called]
                      ELSE [lr |-> [lr EXCEPT !.reader =
                                        MkReader(w.layers, LimitsReader(lr),
                                                 lr.options.maxContentLength)],
                            called |-> w.called]

(***************************************************************************)
(* Reading and closing the value of the field reader.                      *)
(***************************************************************************)
Min(a, b) == IF a < b THEN a ELSE b

\* The error a stream's Read returns once its bytes are used up.
EndError(end) == IF end = "EOF" THEN EOF ELSE RawError(end)

\* A Read of at most k bytes on the chain of decoding readers.
ChainRead(rd, raw, closed, k) ==
    LET s == PipeStream(rd.layers, raw)
        m == Min(k, Len(s.data) - rd.off)
    IN  IF closed
        THEN [n |-> 0, data |-> <<>>, err |-> RawError("closed"), off |-> rd.off]
        ELSE IF m > 0
        THEN [n |-> m, data |-> SubSeq(s.data, rd.off + 1, rd.off + m),
              err |-> Nil, off |-> rd.off + m]
        ELSE [n |-> 0, data |-> <<>>, err |-> EndError(s.end), off |-> rd.off]

\* maxBytesReader.Read of net/http, which http.MaxBytesReader returns.
MaxBytesRead(rd, raw, closed, k) ==
    IF rd.err # Nil
    THEN [n |-> 0, data |-> <<>>, err |-> rd.err, rd |-> rd]
    ELSE LET k2 == IF k - 1 > rd.n THEN rd.n + 1 ELSE k
             u == ChainRead(rd, raw, closed, k2)
         IN  IF u.n <= rd.n
             THEN [n |-> u.n, data |-> u.data, err |-> u.err,
                   rd |-> [rd EXCEPT !.n = rd.n - u.n, !.err = u.err,
                                     !.off = u.off,
                                     !.failed = rd.failed \/ u.err.kind = "raw"]]
             ELSE [n |-> rd.n, data |-> SubSeq(u.data, 1, rd.n),
                   err |-> MaxBytesError(rd.limit),
                   rd |-> [rd EXCEPT !.n = 0, !.err = MaxBytesError(rd.limit),
                                     !.off = u.off]]

\* r.reader.Read(p) with len(p) = k.
ReaderRead(rd, raw, closed, k) ==
    IF rd.limited THEN MaxBytesRead(rd, raw, closed, k)
    ELSE LET u == ChainRead(rd, raw, closed, k)
         IN  [n |-> u.n, data |-> u.data, err |-> u.err,
              rd |-> [rd EXCEPT !.off = u.off,
                                !.failed = rd.failed \/ u.err.kind = "raw"]]

\* The reclassification Read makes of the error of r.reader.Read.
Reclassify(err) ==
    IF err # Nil /\ err # EOF
    THEN IF err.kind = "MaxBytesError"
         THEN RequestContentTooLargeError(err.limit)
         ELSE BadRequestError(err.cause)
    ELSE err

\* r.reader.Close(): the error it returns and whether it closes the raw body.
\* The Close of a gzip or flate reader returns the error its decompressor has
\* met and leaves the reader it wraps open.
ReaderClose(rd, raw, closeFails) ==
    IF rd.layers = <<>>
    THEN [err |-> IF closeFails THEN RawError("close") ELSE Nil,
          closesRaw |-> TRUE]
    ELSE [err |-> IF rd.failed
                  THEN RawError(PipeStream(rd.layers, raw).end) ELSE Nil,
          closesRaw |-> FALSE]

\* (for comparison) handleError panicking whatever the handler
HandleErrorAlwaysPanics(handleBodyError, err) == IsRequestBodyError(err)

\* (for comparison) handleError returning the error whatever the handler
HandleErrorReturns(handleBodyError, err) == FALSE

\* handleError: with a handler and a RequestBodyError it panics with a
\* bodyErrorPanic, else it returns err.
HandleErrorPanics(handleBodyError, err) ==
    handleBodyError # "nil" /\ IsRequestBodyError(err)

(***************************************************************************)
(* The state.                                                              *)
(***************************************************************************)
\* Number of requests the server receives.
MaxRequests == 2
\* Number of goroutines of one inner handler that use the body; goroutine 1
\* is the one ServeHTTP runs in.
MaxGoroutines == 2

Requests == 1..MaxRequests
Goroutines == 1..MaxGoroutines

\* The reference to the map RequestBodyHandler allocates.
MapRef == 1

VARIABLES
    defaultOptions, \* the closure variable defaultOptions of RequestBodyHandler
    heap,           \* the maps of type map[string]encoding, by reference
    env,            \* the requests the clients send and what the inner
                    \* handler may do: fixed when the server starts
    phase,          \* where the middleware's handler function is, per request
    lazy,           \* the lazyReader of each request
    rawClosed,      \* whether the raw body r.Body has been closed
    resp,           \* what has been written to the http.ResponseWriter
    pc,             \* where each goroutine of an inner handler is
    panicValue,     \* the value the handler's goroutine panicked with
    crashed,        \* an unrecovered panic has ended the process
    budget,         \* calls made so far, per request
    hist,           \* history of each request, for stating properties
    result          \* outcome of the last Read or Close of each goroutine

vars == <<defaultOptions, heap, env, phase, lazy, rawClosed, resp, pc,
          panicValue, crashed, budget, hist, result>>

MkOptions(max, require, ref, handler) ==
    [maxContentLength |-> max, requireContentLength |-> require,
     supportedEncodings |-> ref, handleError |-> handler]

\* Default to 10MB; the model's requests are a few bytes long, so the model
\* scales the default limit down to DefaultLimit bytes.
DefaultLimit == 4

\* The literal defaultOptions of RequestBodyHandler.
InitialOptions ==
    MkOptions(DefaultLimit, FALSE, MapRef, "StatusOnlyRequestBodyErrorHandler")

\* A lazyReader as the middleware's handler function builds it.
MkLazyReader(contentLength, contentEncoding, options) ==
    [once |-> [done |-> FALSE, m |-> 0],
     contentLength |-> contentLength,
     contentEncoding |-> contentEncoding,
     reader |-> RawReader,
     initErr |-> Nil,
     options |-> options]

NoLazyReader == MkLazyReader(0, <<>>, InitialOptions)

NoResult ==
    [call |-> "none", how |-> "none", n |-> 0, data |-> <<>>, err |-> Nil,
     strategy |-> "nil"]
NoPanic == [err |-> Nil, handler |-> "nil", other |-> FALSE]

NoResponse == [status |-> 0, body |-> <<>>, acceptEncoding |-> <<"?">>]

\* http.ResponseWriter.WriteHeader: the first status written stands.
WriteHeader(w, code) == IF w.status = 0 THEN [w EXCEPT !.status = code] ELSE w

\* http.ResponseWriter.Write: writes the status 200 when none was written.
Write(w, what) == [WriteHeader(w, StatusOK) EXCEPT !.body = Append(@, what)]

NoHist ==
    [inits |-> 0,        \* times the function given to once.Do was started
     finished |-> 0,     \* times it has returned
     called |-> <<>>,    \* the decoder constructors called, in order
     delivered |-> <<>>, \* the bytes Read has returned to its callers
     before |-> <<>>,    \* the options set before init started
     after |-> <<>>,     \* the options set after init started
     outcomes |-> <<>>,  \* the outcome of each Read and Close, in order
     pulled |-> 0,       \* times the stream of the request was asked for bytes
     handled |-> <<>>,   \* the error handlers the middleware invoked
     handledWith |-> <<>>, \* the errors it invoked them with
     detached |-> 0]     \* calls of SetRequestBodyOption without a policy

(***************************************************************************)
(* Actions.                                                                *)
(***************************************************************************)
Serving(r) == ~crashed /\ phase[r] = "serving"

\* A Once without its mutex: every caller that finds it not done runs f.
OnceRunsUnlocked(o) == ~o.done

\* sync.Once.Do: whether the caller is the one that runs the function.
OnceRuns(o) == ~o.done /\ o.m = 0

\* sync.Once.Do: whether the function has already returned.
OnceDone(o) == o.done

\* A Once that does not record that the function has returned.
OnceForgets == [done |-> FALSE, m |-> 0]

\* sync.Once.Do: the Once when the function has returned.
OnceReturned == [done |-> TRUE, m |-> 0]

\* (for comparison) the handler function running the checks of init itself,
\* before it calls h.ServeHTTP(w, r)
ServeHTTPEager(r) ==
    /\ ~crashed
    /\ phase[r] = "pending"
    /\ resp' = [resp EXCEPT ![r] =
                   IF env.req[r].method = "OPTIONS"
                   THEN [@ EXCEPT !.acceptEncoding =
                            SupportedNames(heap[defaultOptions.supportedEncodings])]
                   ELSE @]
    /\ lazy' = [lazy EXCEPT ![r] =
                   [InitFunc(MkLazyReader(env.req[r].contentLength,
                                          env.req[r].contentEncoding,
                                          defaultOptions),
                             heap, env.req[r].body).lr
                       EXCEPT !.reader = RawReader]]
    /\ phase' = [phase EXCEPT ![r] = "serving"]
    /\ pc' = [pc EXCEPT ![r] =
                 [t \in Goroutines |->
                     IF t <= env.req[r].goroutines THEN [at |-> "idle", k |-> 0]
                     ELSE [at |-> "none", k |-> 0]]]
    /\ UNCHANGED <<defaultOptions, heap, env, rawClosed, panicValue, crashed,
                   budget, hist, result>>

\* The handler function RequestBodyHandler returns, up to h.ServeHTTP(w, r).
ServeHTTP(r) ==
    /\ ~crashed
    /\ phase[r] = "pending"
    /\ resp' = [resp EXCEPT ![r] =
                   IF env.req[r].method = "OPTIONS"
                   THEN [@ EXCEPT !.acceptEncoding =
                            SupportedNames(heap[defaultOptions.supportedEncodings])]
                   ELSE @]
    /\ lazy' = [lazy EXCEPT ![r] =
                   MkLazyReader(env.req[r].contentLength, env.req[r].contentEncoding,
                                defaultOptions)]
    /\ phase' = [phase EXCEPT ![r] = "serving"]
    /\ pc' = [pc EXCEPT ![r] =
                 [t \in Goroutines |->
                     IF t <= env.req[r].goroutines THEN [at |-> "idle", k |-> 0]
                     ELSE [at |-> "none", k |-> 0]]]
    /\ UNCHANGED <<defaultOptions, heap, env, rawClosed, panicValue, crashed,
                   budget, hist, result>>

\* (for comparison) SetRequestBodyOption applying the options to a copy of
\* lazyBody.options: the maps change, the fields of the request's policy
\* do not
SetRequestBodyOptionOnCopy(r, opts) ==
    /\ Serving(r)
    /\ \E t \in 1..env.req[r].goroutines : pc[r][t].at = "idle"
    /\ budget[r].overrides < MaxOverrides
    /\ heap' = ApplyAllMaps(opts, lazy[r].options.supportedEncodings, heap)
    /\ budget' = [budget EXCEPT ![r].overrides = @ + 1]
    /\ hist' = [hist EXCEPT ![r] =
                   IF hist[r].inits = 0
                   THEN [@ EXCEPT !.before = @ \o opts]
                   ELSE [@ EXCEPT !.after = @ \o opts]]
    /\ UNCHANGED <<defaultOptions, env, phase, lazy, rawClosed, resp, pc,
                   panicValue, crashed, result>>

\* (for comparison) SetRequestBodyOption changing the limit of a reader
\* that init has already built
SetRequestBodyOptionRelimits(r, opts) ==
    /\ Serving(r)
    /\ \E t \in 1..env.req[r].goroutines : pc[r][t].at = "idle"
    /\ budget[r].overrides < MaxOverrides
    /\ lazy' = [lazy EXCEPT
                   ![r].options = ApplyAllFields(opts, @),
                   ![r].reader.limit =
                       IF lazy[r].reader.limited
                       THEN ApplyAllFields(opts, lazy[r].options).maxContentLength
                       ELSE @]
    /\ heap' = ApplyAllMaps(opts, lazy[r].options.supportedEncodings, heap)
    /\ budget' = [budget EXCEPT ![r].overrides = @ + 1]
    /\ hist' = [hist EXCEPT ![r] =
                   IF hist[r].inits = 0
                   THEN [@ EXCEPT !.before = @ \o opts]
                   ELSE [@ EXCEPT !.after = @ \o opts]]
    /\ UNCHANGED <<defaultOptions, env, phase, rawClosed, resp, pc, panicValue,
                   crashed, result>>

\* SetRequestBodyOption(r, opts...) called by the inner handler of request r.
SetRequestBodyOption(r, opts) ==
    /\ Serving(r)
    /\ \E t \in 1..env.req[r].goroutines : pc[r][t].at = "idle"
    /\ budget[r].overrides < MaxOverrides
    /\ lazy' = [lazy EXCEPT ![r].options = ApplyAllFields(opts, @)]
    /\ heap' = ApplyAllMaps(opts, lazy[r].options.supportedEncodings, heap)
    /\ budget' = [budget EXCEPT ![r].overrides = @ + 1]
    /\ hist' = [hist EXCEPT ![r] =
                   IF hist[r].inits = 0
                   THEN [@ EXCEPT !.before = @ \o opts]
                   ELSE [@ EXCEPT !.after = @ \o opts]]
    /\ UNCHANGED <<defaultOptions, env, phase, rawClosed, resp, pc, panicValue,
                   crashed, result>>

\* (for comparison) SetRequestBodyOption falling back to the options of the
\* middleware when the request has none
SetRequestBodyOptionOnDefaults(r, target, opts) ==
    /\ Serving(r)
    /\ \E t \in 1..env.req[r].goroutines : pc[r][t].at = "idle"
    /\ budget[r].overrides < MaxOverrides
    /\ budget' = [budget EXCEPT ![r].overrides = @ + 1]
    /\ hist' = [hist EXCEPT ![r].detached = @ + 1]
    /\ defaultOptions' = ApplyAllFields(opts, defaultOptions)
    /\ heap' = ApplyAllMaps(opts, defaultOptions.supportedEncodings, heap)
    /\ UNCHANGED <<env, phase, lazy, rawClosed, resp, pc, panicValue,
                   crashed, result>>

\* SetRequestBodyOption(q, opts...) called by the inner handler of request r
\* with a q that is nil, or a request that did not come through the
\* middleware ("bare": its context has no value for contextKey).
SetRequestBodyOptionDetached(r, target, opts) ==
    /\ Serving(r)
    /\ \E t \in 1..env.req[r].goroutines : pc[r][t].at = "idle"
    /\ budget[r].overrides < MaxOverrides
    /\ budget' = [budget EXCEPT ![r].overrides = @ + 1]
    /\ hist' = [hist EXCEPT ![r].detached = @ + 1]
    /\ target \in {"nil", "bare"}
    /\ UNCHANGED <<defaultOptions, heap, env, phase, lazy, rawClosed, resp, pc,
                   panicValue, crashed, result>>

\* A goroutine calls r.Body.Read(p) with len(p) = k.
ReadCall(r, t, k) ==
    /\ Serving(r)
    /\ pc[r][t].at = "idle"
    /\ budget[r].calls < MaxCalls
    /\ budget' = [budget EXCEPT ![r].calls = @ + 1]
    /\ pc' = [pc EXCEPT ![r][t] = [at |-> "once", k |-> k]]
    /\ UNCHANGED <<defaultOptions, heap, env, phase, lazy, rawClosed, resp,
                   panicValue, crashed, hist, result>>

\* r.once.Do(...) in init: the caller runs the function, or finds it done;
\* while another goroutine runs it, the caller waits.
OnceDo(r, t) ==
    /\ Serving(r)
    /\ pc[r][t].at = "once"
    /\ IF OnceDone(lazy[r].once)
       THEN /\ pc' = [pc EXCEPT ![r][t].at = "read"]
            /\ UNCHANGED <<lazy, hist>>
       ELSE /\ OnceRuns(lazy[r].once)
            /\ pc' = [pc EXCEPT ![r][t].at = "init"]
            /\ lazy' = [lazy EXCEPT ![r].once.m = t]
            /\ hist' = [hist EXCEPT ![r].inits = @ + 1]
    /\ UNCHANGED <<defaultOptions, heap, env, phase, rawClosed, resp,
                   panicValue, crashed, budget, result>>

\* The reads the constructors make: gzip.NewReader reads the header from the
\* reader it is given, flate.NewReader reads nothing.
HeaderReads(called) ==
    Cardinality({i \in 1..Len(called) : called[i] = "GZipEncodingReader"})

\* The function init gives to once.Do, and once.Do's return.
InitBody(r, t) ==
    /\ Serving(r)
    /\ pc[r][t].at = "init"
    /\ LET f == InitFunc(lazy[r], heap,
                         IF rawClosed[r] THEN MkStream(<<>>, "closed")
                         ELSE env.req[r].body)
       IN  /\ lazy' = [lazy EXCEPT ![r] =
                          [f.lr EXCEPT !.once = OnceReturned]]
           /\ hist' = [hist EXCEPT ![r].called = @ \o f.called,
                                   ![r].finished = @ + 1,
                                   ![r].pulled = @ + HeaderReads(f.called)]
    /\ pc' = [pc EXCEPT ![r][t].at = "read"]
    /\ UNCHANGED <<defaultOptions, heap, env, phase, rawClosed, resp,
                   panicValue, crashed, budget, result>>

\* (for comparison) the handler the middleware was built with, whatever the
\* inner handler has set since
HandlerOfDefaults(r) == defaultOptions.handleError

\* r.options.handleError, read when Read or Close calls handleError.
HandlerOfOptions(r) == lazy[r].options.handleError

\* What a call that ends with the error err does: handleError panics or
\* returns.  A panic in the goroutine ServeHTTP runs in reaches the deferred
\* function of the middleware; in any other goroutine it ends the process.
Finish(r, t, call, n, data, err, pulls) ==
    LET handler == HandlerOfOptions(r)
        panics == HandleErrorPanics(handler, err)
        out == [call |-> call, how |-> IF panics THEN "panic" ELSE "return",
                n |-> n, data |-> data, err |-> err, strategy |-> handler]
    IN  /\ result' = [result EXCEPT ![r][t] = out]
        /\ hist' = [hist EXCEPT
                       ![r].outcomes = Append(@, out),
                       ![r].pulled = @ + pulls,
                       ![r].delivered = IF panics THEN @ ELSE @ \o data]
        /\ IF ~panics
           THEN /\ pc' = [pc EXCEPT ![r][t] = [at |-> "idle", k |-> 0]]
                /\ UNCHANGED <<phase, panicValue, crashed>>
           ELSE IF t = 1
           THEN /\ pc' = [pc EXCEPT ![r][t] = [at |-> "panicked", k |-> 0]]
                /\ phase' = [phase EXCEPT ![r] = "panicked"]
                /\ panicValue' = [panicValue EXCEPT ![r] =
                                     [err |-> err, handler |-> handler,
                                      other |-> FALSE]]
                /\ UNCHANGED crashed
           ELSE /\ pc' = [pc EXCEPT ![r][t] = [at |-> "panicked", k |-> 0]]
                /\ crashed' = TRUE
                /\ UNCHANGED <<phase, panicValue>>

\* (for comparison) Read without the test of initErr
ReadBodyIgnoringInitErr(r, t) ==
    /\ Serving(r)
    /\ pc[r][t].at = "read"
    /\ LET rd == ReaderRead(lazy[r].reader, env.req[r].body, rawClosed[r],
                            pc[r][t].k)
       IN  /\ lazy' = [lazy EXCEPT ![r].reader = rd.rd]
           /\ Finish(r, t, "Read", rd.n, rd.data, Reclassify(rd.err), 1)
    /\ UNCHANGED <<defaultOptions, heap, env, rawClosed, resp, budget>>

\* Read after init().
ReadBody(r, t) ==
    /\ Serving(r)
    /\ pc[r][t].at = "read"
    /\ IF lazy[r].initErr # Nil
       THEN /\ Finish(r, t, "Read", 0, <<>>, lazy[r].initErr, 0)
            /\ UNCHANGED lazy
       ELSE LET rd == ReaderRead(lazy[r].reader, env.req[r].body, rawClosed[r],
                                 pc[r][t].k)
            IN  /\ lazy' = [lazy EXCEPT ![r].reader = rd.rd]
                /\ Finish(r, t, "Read", rd.n, rd.data, Reclassify(rd.err), 1)
    /\ UNCHANGED <<defaultOptions, heap, env, rawClosed, resp, budget>>

\* (for comparison) Close calling r.reader.Close() whatever initErr holds
CloseIgnoringInitErr(r, t) ==
    /\ Serving(r)
    /\ pc[r][t].at = "idle"
    /\ budget[r].calls < MaxCalls
    /\ budget' = [budget EXCEPT ![r].calls = @ + 1]
    /\ LET c == ReaderClose(lazy[r].reader, env.req[r].body, env.req[r].closeFails)
       IN  /\ rawClosed' = [rawClosed EXCEPT ![r] = @ \/ c.closesRaw]
           /\ result' = [result EXCEPT ![r][t] =
                            [call |-> "Close", how |-> "return", n |-> 0,
                             data |-> <<>>, err |-> c.err,
                             strategy |-> lazy[r].options.handleError]]
           /\ hist' = [hist EXCEPT ![r].outcomes = Append(@, result'[r][t])]
           /\ UNCHANGED <<pc, phase, panicValue, crashed>>
    /\ UNCHANGED <<defaultOptions, heap, env, lazy, resp>>

\* lazyReader.Close.
Close(r, t) ==
    /\ Serving(r)
    /\ pc[r][t].at = "idle"
    /\ budget[r].calls < MaxCalls
    /\ budget' = [budget EXCEPT ![r].calls = @ + 1]
    /\ IF lazy[r].initErr # Nil
       THEN /\ Finish(r, t, "Close", 0, <<>>, lazy[r].initErr, 0)
            /\ UNCHANGED rawClosed
       ELSE LET c == ReaderClose(lazy[r].reader, env.req[r].body, env.req[r].closeFails)
            IN  /\ rawClosed' = [rawClosed EXCEPT ![r] = @ \/ c.closesRaw]
                /\ result' = [result EXCEPT ![r][t] =
                                 [call |-> "Close", how |-> "return", n |-> 0,
                                  data |-> <<>>, err |-> c.err,
                                  strategy |-> lazy[r].options.handleError]]
                /\ hist' = [hist EXCEPT ![r].outcomes =
                               Append(@, result'[r][t])]
                /\ UNCHANGED <<pc, phase, panicValue, crashed>>
    /\ UNCHANGED <<defaultOptions, heap, env, lazy, resp>>

\* The inner handler writes its own response.
HandlerWrite(r, code) ==
    /\ Serving(r)
    /\ pc[r][1].at = "idle"
    /\ ~budget[r].wrote
    /\ budget' = [budget EXCEPT ![r].wrote = TRUE]
    /\ resp' = [resp EXCEPT ![r] = Write(WriteHeader(@, code), "handler")]
    /\ UNCHANGED <<defaultOptions, heap, env, phase, lazy, rawClosed, pc,
                   panicValue, crashed, hist, result>>

\* h.ServeHTTP(w, r) returns.
HandlerReturn(r) ==
    /\ Serving(r)
    /\ pc[r][1].at = "idle"
    /\ phase' = [phase EXCEPT ![r] = "done"]
    /\ UNCHANGED <<defaultOptions, heap, env, lazy, rawClosed, resp, pc,
                   panicValue, crashed, budget, hist, result>>

\* The inner handler panics with a value of its own.
HandlerPanic(r) ==
    /\ Serving(r)
    /\ pc[r][1].at = "idle"
    /\ env.req[r].mayPanic
    /\ phase' = [phase EXCEPT ![r] = "panicked"]
    /\ pc' = [pc EXCEPT ![r][1].at = "panicked"]
    /\ panicValue' = [panicValue EXCEPT ![r] =
                         [err |-> Nil, handler |-> "nil", other |-> TRUE]]
    /\ UNCHANGED <<defaultOptions, heap, env, lazy, rawClosed, resp, crashed,
                   budget, hist, result>>

\* (for comparison) an error handler that writes the status 400 whatever
\* the error is
RunHandlerBadRequest(handler, w) ==
    [w |-> WriteHeader(w.w, StatusBadRequest)]

\* (for comparison) the middleware calling the status-only handler whatever
\* handler the panic carries
RunStatusOnly(handler, w) ==
    [w |-> WriteHeader(w.w, RecommendedStatusCode(w.err))]

\* What an error handler writes.  The application's own handler is the one
\* of the tests: a status of its own and a body.
RunHandler(handler, w) ==
    IF handler = "StatusOnlyRequestBodyErrorHandler"
    THEN [w |-> WriteHeader(w.w, RecommendedStatusCode(w.err))]
    ELSE [w |-> Write(WriteHeader(w.w, StatusTeapot), "custom")]

\* (for comparison) the deferred function answering every panic itself
RecoverSwallows(r) ==
    /\ ~crashed
    /\ phase[r] = "panicked"
    /\ phase' = [phase EXCEPT ![r] = "done"]
    /\ IF panicValue[r].other
       THEN /\ resp' = [resp EXCEPT ![r] =
                           WriteHeader(@, StatusInternalServerError)]
            /\ UNCHANGED hist
       ELSE /\ resp' = [resp EXCEPT ![r] =
                           RunHandler(panicValue[r].handler,
                                      [w |-> @, err |-> panicValue[r].err]).w]
            /\ hist' = [hist EXCEPT
                           ![r].handled = Append(@, panicValue[r].handler),
                           ![r].handledWith = Append(@, panicValue[r].err)]
    /\ UNCHANGED <<defaultOptions, heap, env, lazy, rawClosed, pc, panicValue,
                   crashed, budget, result>>

\* The deferred function of the middleware's handler function.
Recover(r) ==
    /\ ~crashed
    /\ phase[r] = "panicked"
    /\ IF panicValue[r].other
       THEN /\ phase' = [phase EXCEPT ![r] = "repanicked"]
            /\ UNCHANGED <<resp, hist>>
       ELSE /\ phase' = [phase EXCEPT ![r] = "done"]
            /\ resp' = [resp EXCEPT ![r] =
                           RunHandler(panicValue[r].handler,
                                      [w |-> @, err |-> panicValue[r].err]).w]
            /\ hist' = [hist EXCEPT
                           ![r].handled = Append(@, panicValue[r].handler),
                           ![r].handledWith = Append(@, panicValue[r].err)]
    /\ UNCHANGED <<defaultOptions, heap, env, lazy, rawClosed, pc, panicValue,
                   crashed, budget, result>>

(***************************************************************************)
(* The environment: the defaults the middleware is built with, the         *)
(* requests clients send and what the inner handlers do with them.         *)
(***************************************************************************)
\* Longest body, before encoding, a client sends.
MaxBody == 4

\* A request and the behaviour of its inner handler.  payload and tokens
\* are what the client encoded and the encodings it applied, in order;
\* options are the option lists the handler may pass to
\* SetRequestBodyOption, codes the status codes it may write itself.
BaseEnv ==
    [present |-> TRUE, method |-> "POST", contentLength |-> 0,
     contentEncoding |-> <<>>, body |-> MkStream(<<>>, "EOF"),
     closeFails |-> FALSE, goroutines |-> 1, options |-> {},
     codes |-> {StatusOK}, mayPanic |-> FALSE,
     payload |-> <<>>, tokens |-> <<>>, targets |-> {}]

Absent == [BaseEnv EXCEPT !.present = FALSE, !.goroutines = 0, !.codes = {}]

\* The encoder a client uses for an encoding name; "br" stands for an
\* encoding of the application's own, which it decodes with the flate reader.
ClientCodec(name) ==
    IF name \in {S_gzip, S_xgzip} THEN "GZipEncodingReader"
    ELSE "DeflateEncodingReader"

\* The header value a client writes for the encodings it applied.
HeaderOf(tokens, style) ==
    CASE style = "tight" ->
            IF tokens = <<>> THEN <<>>
            ELSE tokens[1] \o
                 IF Len(tokens) = 1 THEN <<>>
                 ELSE <<",">> \o Join(Tail(tokens))
      [] style = "spaced" -> Join(tokens)
      [] style = "padded" ->
            IF tokens = <<>> THEN <<>>
            ELSE <<" ">> \o tokens[1] \o <<"\t">> \o
                 IF Len(tokens) = 1 THEN <<>>
                 ELSE <<",">> \o Join(Tail(tokens)) \o <<" ">>

Zeros(n) == [i \in 1..n |-> 0]
Ones(n) == [i \in 1..n |-> 1]

\* The bytes on the wire for a payload encoded with the named encodings.
Wire(tokens, payload) ==
    EncodeAll([i \in 1..Len(tokens) |-> ClientCodec(tokens[i])], payload)

\* A request whose body is sent whole, with its Content-Length header.
Declared(tokens, style, payload) ==
    [BaseEnv EXCEPT !.contentLength = Len(Wire(tokens, payload)),
                    !.contentEncoding = HeaderOf(tokens, style),
                    !.body = MkStream(Wire(tokens, payload), "EOF"),
                    !.payload = payload, !.tokens = tokens]

\* A request whose body is sent chunked: net/http reports the length -1.
Chunked(tokens, style, payload) ==
    [Declared(tokens, style, payload) EXCEPT !.contentLength = -1]

\* A request whose sender stops after `sent` bytes of the declared body.
Truncated(e, sent) ==
    [e EXCEPT !.body = MkStream(SubSeq(e.body.data, 1, sent), "unexpectedEOF")]

\* A request with a declared length whose body is never sent.
Announced(contentLength) ==
    [BaseEnv EXCEPT !.contentLength = contentLength,
                    !.body = MkStream(<<>>, "unexpectedEOF")]

\* The options a handler passes to SetRequestBodyOption with a request that
\* has no policy: they would change every field and the map.
DetachedOptions ==
    {<<ContentLengthLimit(0), RequireContentLength(TRUE),
       HandleRequestBodyError("Custom"), DisableEncoding(S_gzip)>>}

\* The scenario of one request.
One(defaults, e) ==
    [defaults |-> defaults,
     req |-> [r \in Requests |-> IF r = 1 THEN e ELSE Absent]]

\* RequestBodyHandler(h, defaults...): the state once it has returned.
Start(scenario) ==
    /\ env = scenario
    /\ defaultOptions = ApplyAllFields(scenario.defaults, InitialOptions)
    /\ heap = ApplyAllMaps(scenario.defaults, MapRef,
                           (MapRef :> DefaultEncodings))
    /\ phase = [r \in Requests |->
                   IF scenario.req[r].present THEN "pending" ELSE "absent"]
    /\ lazy = [r \in Requests |-> NoLazyReader]
    /\ rawClosed = [r \in Requests |-> FALSE]
    /\ resp = [r \in Requests |-> NoResponse]
    /\ pc = [r \in Requests |-> [t \in Goroutines |-> [at |-> "none", k |-> 0]]]
    /\ panicValue = [r \in Requests |-> NoPanic]
    /\ crashed = FALSE
    /\ budget = [r \in Requests |->
                    [overrides |-> 0, wrote |-> FALSE,
                     calls |-> 0]]
    /\ hist = [r \in Requests |-> NoHist]
    /\ result = [r \in Requests |-> [t \in Goroutines |-> NoResult]]

Next ==
    \/ \E r \in Requests : ServeHTTP(r)
    \/ \E r \in Requests : \E opts \in env.req[r].options :
          SetRequestBodyOption(r, opts)
    \/ \E r \in Requests : \E target \in env.req[r].targets :
          \E opts \in DetachedOptions :
              SetRequestBodyOptionDetached(r, target, opts)
    \/ \E r \in Requests, t \in Goroutines, k \in 1..MaxBuf : ReadCall(r, t, k)
    \/ \E r \in Requests, t \in Goroutines : OnceDo(r, t)
    \/ \E r \in Requests, t \in Goroutines : InitBody(r, t)
    \/ \E r \in Requests, t \in Goroutines : ReadBody(r, t)
    \/ \E r \in Requests, t \in Goroutines : Close(r, t)
    \/ \E r \in Requests : \E code \in env.req[r].codes : HandlerWrite(r, code)
    \/ \E r \in Requests : HandlerReturn(r)
    \/ \E r \in Requests : HandlerPanic(r)
    \/ \E r \in Requests : Recover(r)

(***************************************************************************)
(* Specifications.  Each starts the server in one scenario of a family     *)
(* and lets the requests and their handlers run.                           *)
(***************************************************************************)
\* What the scenarios let a handler do besides using the body.
Lively(e) == [e EXCEPT !.codes = {StatusOK, StatusInternalServerError},
                       !.mayPanic = TRUE, !.targets = {"nil", "bare"}]

\* Handlers that use the body from every goroutine they have.
RaceScenarios ==
    {One(d, [e EXCEPT !.goroutines = MaxGoroutines]) :
        d \in {<<ReturnOnError>>, <<>>},
        e \in {[Declared(<<>>, "tight", Ones(2))
                   EXCEPT !.options = {<<ContentLengthLimit(1)>>}],
               [Chunked(<<S_br>>, "tight", Ones(1))
                   EXCEPT !.options = {<<RequireContentLength(TRUE)>>}]}}
    \cup {One(<<ReturnOnError>>, Lively(Declared(<<>>, "tight", Ones(1))))}

InitRace == \E sc \in RaceScenarios : Start(sc)

SpecRace == InitRace /\ [][Next]_vars

(***************************************************************************)
(* C1: for one lazy body reader, whatever Read and Close calls are made    *)
(* and however they interleave, also when several goroutines race on the   *)
(* first access, the function that initialises the reader is started at    *)
(* most once.                                                              *)
(***************************************************************************)
C1_InitAtMostOnce == \A r \in Requests : hist[r].inits <= 1

\* One goroutine is inside the initialisation while another one has called
\* Read and waits in once.Do.
C1_Witness ==
    \E r \in Requests : \E t, u \in Goroutines :
        /\ t # u
        /\ pc[r][t].at = "init"
        /\ pc[r][u].at = "once"
        /\ hist[r].inits = 1

(***************************************************************************)
(* C10: once the initialisation has returned, its outcome stays: no step,  *)
(* in particular no later Read, starts the initialisation again, calls a   *)
(* decoder constructor, or changes the deferred error or the chain of      *)
(* readers and the limit that were built.                                  *)
(***************************************************************************)
Outcome(r) ==
    [initErr |-> lazy[r].initErr, layers |-> lazy[r].reader.layers,
     limited |-> lazy[r].reader.limited, limit |-> lazy[r].reader.limit,
     inits |-> hist[r].inits, called |-> hist[r].called]

C10_OutcomeIsFinal ==
    [][\A r \in Requests : hist[r].finished >= 1 => Outcome(r)' = Outcome(r)]_vars

\* A second Read has returned after the first one, and the options were
\* changed after the initialisation.
C10_Witness ==
    \E r \in Requests :
        /\ hist[r].finished = 1
        /\ hist[r].after # <<>>
        /\ Len(hist[r].outcomes) >= 2
        /\ \A i \in 1..2 : hist[r].outcomes[i].call = "Read"

(***************************************************************************)
(* Two requests served by the same middleware.                             *)
(***************************************************************************)
Two(defaults, e1, e2) ==
    [defaults |-> defaults,
     req |-> [r \in Requests |->
                 IF r = 1 THEN e1 ELSE IF r = 2 THEN e2 ELSE Absent]]

SharedScenarios ==
    {Two(<<>>,
         [Lively(Declared(<<S_gzip>>, "tight", Ones(1)))
             EXCEPT !.options = {<<DisableEncoding(S_gzip)>>}],
         Declared(<<S_gzip>>, "tight", Ones(1))),
     Two(<<>>,
         [Declared(<<>>, "tight", Ones(1))
             EXCEPT !.options =
                 {<<SupportEncoding(S_br, "DeflateEncodingReader")>>}],
         [Declared(<<>>, "tight", <<>>) EXCEPT !.method = "OPTIONS"]),
     Two(<<>>,
         [Declared(<<>>, "tight", Ones(2))
             EXCEPT !.options = {<<ContentLengthLimit(1), ReturnOnError>>}],
         Declared(<<>>, "tight", Ones(2)))}

InitShared == \E sc \in SharedScenarios : Start(sc)

SpecShared == InitShared /\ [][Next]_vars

\* The options and the encodings the middleware was built with.
BuiltOptions == ApplyAllFields(env.defaults, InitialOptions)
BuiltEncodings ==
    ApplyAllMaps(env.defaults, MapRef, (MapRef :> DefaultEncodings))[MapRef]

\* The options the handler of request r has set so far.
OwnOptions(r) == hist[r].before \o hist[r].after

\* The encodings request r has when only its own options are applied to a
\* copy of the encodings the middleware was built with.
OwnEncodings(r) ==
    ApplyAllMaps(OwnOptions(r), MapRef, (MapRef :> BuiltEncodings))[MapRef]

(***************************************************************************)
(* C2: the policies of different requests are independent.  The defaults   *)
(* of the middleware, which a later request is initialised with and which  *)
(* are advertised, stay as they were built; the policy of a request in     *)
(* flight is the built defaults changed by the options of its own handler  *)
(* only, the encodings included.                                           *)
(***************************************************************************)
C2_PoliciesIndependent ==
    /\ defaultOptions = BuiltOptions
    /\ heap[defaultOptions.supportedEncodings] = BuiltEncodings
    /\ \A r \in Requests :
          phase[r] = "serving" =>
              /\ lazy[r].options = ApplyAllFields(OwnOptions(r), BuiltOptions)
              /\ heap[lazy[r].options.supportedEncodings] = OwnEncodings(r)

\* The part of C2 that the struct copy gives: the fields other than the
\* encodings are per request.
C2_FieldsIndependent ==
    /\ defaultOptions = BuiltOptions
    /\ \A r \in Requests :
          phase[r] = "serving" =>
              lazy[r].options = ApplyAllFields(OwnOptions(r), BuiltOptions)

(***************************************************************************)
(* One request, one goroutine: the size ceiling.                           *)
(***************************************************************************)
\* The bodies of the ceiling scenarios: plain ones of every length below
\* MaxBody, sent with and without their length, and gzip bodies, one that
\* is longer encoded than decoded and one that is shorter.
LimitRequests ==
    {Declared(<<>>, "tight", Ones(n)) : n \in 0..(MaxBody - 1)}
    \cup {Chunked(<<>>, "tight", Ones(n)) : n \in 1..(MaxBody - 1)}
    \cup {Declared(<<S_gzip>>, "tight", Ones(1)),
          Declared(<<S_gzip>>, "tight", Zeros(MaxBody))}

LimitScenarios ==
    {One(d, [e EXCEPT !.options = {<<ContentLengthLimit(n)>> : n \in {0, 1, 3}}]) :
        d \in {<<ReturnOnError, ContentLengthLimit(n)>> : n \in {-1, 0, 1, 2}}
              \cup {<<ContentLengthLimit(1)>>},
        e \in LimitRequests}
    \* the limit of the tests: a handler that lowers the limit to 100 bytes
    \cup {One(d, [Declared(<<>>, "tight", Zeros(101))
                     EXCEPT !.options = {<<ContentLengthLimit(100)>>}]) :
             d \in {<<>>, <<ContentLengthLimit(-1)>>}}
    \* a gzip body that is shorter than the limit and decodes to more
    \* than the limit
    \cup {One(d, [Declared(<<S_gzip>>, "tight", Zeros(2 * (MaxBody - 1)))
                     EXCEPT !.options =
                         {<<ContentLengthLimit(1)>>,
                          <<DisableEncoding(S_gzip), RequireContentLength(TRUE)>>}]) :
             d \in {<<ReturnOnError, ContentLengthLimit(MaxBody + 1)>>,
                    <<ContentLengthLimit(MaxBody + 1)>>}}
    \* the default limit: a body at the limit and one a byte over it
    \cup {One(<<>>, Lively(Declared(<<>>, "tight", Zeros(n)))) :
             n \in {DefaultLimit, DefaultLimit + 1}}

InitLimit == \E sc \in LimitScenarios : Start(sc)

SpecLimit == InitLimit /\ [][Next]_vars

\* The ceiling after a list of options, d being the ceiling before it.
RECURSIVE CeilingAfter(_, _)
CeilingAfter(opts, d) ==
    IF opts = <<>> THEN d
    ELSE CeilingAfter(Tail(opts),
                      IF Head(opts).op = "ContentLengthLimit"
                      THEN Head(opts).n ELSE d)

\* The ceiling the middleware was built with, and the ceiling in effect for
\* request r when its handler has set its options before the first read.
BuiltCeiling == CeilingAfter(env.defaults, DefaultLimit)
CeilingAtInit(r) == CeilingAfter(hist[r].before, BuiltCeiling)

\* The handler of r has set a ceiling before the first read.
SetsCeiling(r) ==
    \E i \in 1..Len(hist[r].before) : hist[r].before[i].op = "ContentLengthLimit"

IsPrefix(a, b) == Len(a) <= Len(b) /\ a = SubSeq(b, 1, Len(a))

\* The outcomes of r's calls so far, by kind.
Outcomes(r) == {hist[r].outcomes[i] : i \in 1..Len(hist[r].outcomes)}
Reads(r) == {o \in Outcomes(r) : o.call = "Read"}
TooLarge(r) == {o \in Outcomes(r) : o.err.kind = "RequestContentTooLargeError"}
OnlyReads(r) == Outcomes(r) = Reads(r)

\* Whether a Read of r has reported the end of the body.
ReadToEnd(r) == \E o \in Reads(r) : o.err = EOF

(***************************************************************************)
(* C3 as stated: a ceiling set by the handler before the first read is the *)
(* one initialisation uses.  With the ceiling set to L and a declared      *)
(* length above L, initialisation records BodyTooLarge(L) whatever the     *)
(* default ceiling is, and every Read yields it; with the ceiling raised   *)
(* to at least the declared length of a body the default ceiling rejects,  *)
(* no BodyTooLarge is produced.                                            *)
(***************************************************************************)
C3_Lowered(r) ==
    LET L == CeilingAtInit(r)
    IN  (L >= 0 /\ env.req[r].contentLength > L) =>
            /\ lazy[r].initErr = RequestContentTooLargeError(L)
            /\ \A o \in Reads(r) :
                  o.err = RequestContentTooLargeError(L) /\ o.n = 0

\* The ceiling was raised to at least the declared length of a body that
\* the default ceiling rejects.
C3_Raised(r) ==
    /\ BuiltCeiling >= 0
    /\ env.req[r].contentLength > BuiltCeiling
    /\ CeilingAtInit(r) >= env.req[r].contentLength

C3_OverrideGovernsInit_Original ==
    \A r \in Requests :
        (hist[r].finished >= 1 /\ SetsCeiling(r)) =>
            /\ C3_Lowered(r)
            /\ C3_Raised(r) =>
                  /\ lazy[r].initErr.kind # "RequestContentTooLargeError"
                  /\ TooLarge(r) = {}

(***************************************************************************)
(* C3 as amended: as above, but with the ceiling raised it is the          *)
(* initialisation that produces no BodyTooLarge; a Read still yields       *)
(* BodyTooLarge(L) for the raised ceiling L when the body decodes to more  *)
(* than L bytes, and none when it decodes to at most L bytes.              *)
(***************************************************************************)
C3_OverrideGovernsInit ==
    \A r \in Requests :
        (hist[r].finished >= 1 /\ SetsCeiling(r)) =>
            /\ C3_Lowered(r)
            /\ C3_Raised(r) =>
                  /\ lazy[r].initErr.kind # "RequestContentTooLargeError"
                  /\ \A o \in TooLarge(r) :
                        /\ o.err.limit = CeilingAtInit(r)
                        /\ Len(env.req[r].payload) > CeilingAtInit(r)
                        /\ o.call = "Read"

\* The scenario of the tests: the limit is unlimited by default, the handler
\* sets it to 100, the body has 101 bytes, and a Read has yielded
\* BodyTooLarge(100).
C3_Witness ==
    \E r \in Requests :
        /\ BuiltCeiling = -1
        /\ hist[r].before = <<ContentLengthLimit(100)>>
        /\ env.req[r].contentLength = 101
        /\ \E o \in Reads(r) : o.err = RequestContentTooLargeError(100)

\* A handler has raised the ceiling past the declared length of a body the
\* default ceiling rejects, and the body has been read to its end.
C3_WitnessRaised ==
    \E r \in Requests :
        /\ hist[r].finished >= 1 /\ SetsCeiling(r) /\ C3_Raised(r)
        /\ ReadToEnd(r)
        /\ hist[r].delivered = env.req[r].payload

(***************************************************************************)
(* C4 as stated: for every ceiling L >= 0 and body of S bytes, reading the *)
(* whole body succeeds exactly when S <= L, and with S = L + 1 the read    *)
(* yields BodyTooLarge(L) and delivers no byte.                            *)
(***************************************************************************)
\* The reads of r have succeeded so far: each returned bytes of the body
\* with no error, or its end.
ReadsSucceed(r) ==
    /\ \A o \in Reads(r) : o.err \in {Nil, EOF}
    /\ IsPrefix(hist[r].delivered, env.req[r].payload)
    /\ ReadToEnd(r) => hist[r].delivered = env.req[r].payload

\* Every read of r has failed with BodyTooLarge(L) and delivered nothing.
ReadsRejected(r, L) ==
    /\ \A o \in Reads(r) : o.err = RequestContentTooLargeError(L) /\ o.n = 0
    /\ hist[r].delivered = <<>>

C4_Ceiling(r) ==
    LET L == CeilingAtInit(r)
        S == Len(env.req[r].payload)
    IN  L >= 0 =>
            /\ (ReadToEnd(r) /\ hist[r].delivered = env.req[r].payload) => S <= L
            /\ S <= L => ReadsSucceed(r)
            /\ S = L + 1 => ReadsRejected(r, L)

SentPlain(r) ==
    /\ env.req[r].contentEncoding = <<>>
    /\ env.req[r].body = MkStream(env.req[r].payload, "EOF")
    /\ env.req[r].contentLength = Len(env.req[r].payload)

C4_WitnessOver ==
    \E r \in Requests :
        /\ hist[r].finished >= 1 /\ OnlyReads(r) /\ SentPlain(r)
        /\ CeilingAtInit(r) >= 0
        /\ Len(env.req[r].payload) = CeilingAtInit(r) + 1
        /\ Reads(r) # {}

(***************************************************************************)
(* One request, one goroutine: the errors of Read and Close.               *)
(***************************************************************************)
\* Requests whose body meets each of the errors: no length, too long, an
\* encoding nobody supports, a sender that stops early, a body that is not
\* what its header says, a stream whose Close fails; and two sound ones.
ErrorRequests ==
    {Chunked(<<>>, "tight", Ones(1)),
     [Declared(<<>>, "tight", Ones(2)) EXCEPT !.options = {<<ContentLengthLimit(1)>>}],
     Chunked(<<S_br>>, "tight", Ones(1)),
     Truncated(Declared(<<>>, "tight", Ones(2)), 1),
     [Declared(<<>>, "tight", Ones(1)) EXCEPT !.contentEncoding = S_gzip],
     [Chunked(<<>>, "tight", Zeros(1)) EXCEPT !.contentEncoding = S_deflate],
     [Declared(<<>>, "tight", Ones(1)) EXCEPT !.closeFails = TRUE],
     [Chunked(<<>>, "tight", Ones(1)) EXCEPT !.closeFails = TRUE],
     Declared(<<S_gzip>>, "tight", Ones(1)),
     Declared(<<>>, "tight", <<>>),
     [Declared(<<S_gzip>>, "tight", Ones(2)) EXCEPT !.options =
         {<<ContentLengthLimit(1), ContentLengthLimit(3)>>,
          <<ReturnOnError, HandleRequestBodyError("Custom")>>,
          <<RequireContentLength(TRUE), DisableEncoding(S_gzip),
            RequireContentLength(FALSE),
            SupportEncoding(S_gzip, "DeflateEncodingReader")>>}],
     Lively(Declared(<<>>, "tight", Ones(MaxBody)))}

\* The error strategies a middleware is built with, with and without the
\* requirement of a content length.
ErrorDefaults ==
    {s \o l : s \in {<<>>, <<ReturnOnError>>, <<HandleRequestBodyError("Custom")>>,
                      <<HandleRequestBodyError("nil")>>},
              l \in {<<>>, <<RequireContentLength(TRUE)>>}}

Scenarios ==
    {One(d, [e EXCEPT !.options =
                IF @ = {} THEN {<<ReturnOnError>>} ELSE @]) :
        d \in ErrorDefaults, e \in ErrorRequests}

Init == \E sc \in Scenarios : Start(sc)

Spec == Init /\ [][Next]_vars

Panics(r) == {o \in Outcomes(r) : o.how = "panic"}

\* What the error handler leaves in a response nobody has written to.
C5_Written(r, o) ==
    /\ hist[r].handled = <<o.strategy>>
    /\ ~budget[r].wrote =>
          /\ o.strategy = "StatusOnlyRequestBodyErrorHandler" =>
                resp[r] = [NoResponse EXCEPT
                              !.status = RecommendedStatusCode(o.err)]
          /\ o.strategy = "Custom" =>
                resp[r] = [NoResponse EXCEPT !.status = StatusTeapot,
                                             !.body = <<"custom">>]

C5_WitnessReturned ==
    \E r \in Requests : \E o \in Outcomes(r) :
        /\ IsRequestBodyError(o.err) /\ o.how = "return" /\ o.strategy = "nil"
        /\ phase[r] = "done" /\ resp[r].status = 0

(***************************************************************************)
(* C6: an error returned by Read or Close is nil, the end of the body, or  *)
(* one of the four request body errors.                                    *)
(***************************************************************************)
C6_ErrorsAreTyped ==
    \A r \in Requests : \A o \in Outcomes(r) :
        o.how = "return" => (o.err \in {Nil, EOF} \/ IsRequestBodyError(o.err))

\* The part of C6 that is about Read.
C6_ReadErrorsAreTyped ==
    \A r \in Requests : \A o \in Reads(r) :
        o.err \in {Nil, EOF} \/ IsRequestBodyError(o.err)

\* Whether a content length is required after a list of options.
RECURSIVE RequiredAfter(_, _)
RequiredAfter(opts, d) ==
    IF opts = <<>> THEN d
    ELSE RequiredAfter(Tail(opts),
                       IF Head(opts).op = "RequireContentLength"
                       THEN Head(opts).b ELSE d)

RequiredAtFirstUse(r) ==
    RequiredAfter(hist[r].before \o hist[r].after,
                  RequiredAfter(env.defaults, FALSE))

C7_WitnessClose ==
    \E r \in Requests :
        /\ env.req[r].contentLength < 0 /\ RequiredAtFirstUse(r)
        /\ hist[r].outcomes # <<>>
        /\ hist[r].outcomes[1].call = "Close"
        /\ hist[r].inits = 0

(***************************************************************************)
(* One request, one goroutine: the Content-Encoding header.                *)
(***************************************************************************)
EncodingNames == {S_gzip, S_xgzip, S_deflate, S_br}
Styles == {"tight", "spaced", "padded"}

\* The lists of at most two encodings a client applies.
TokenLists ==
    {<<>>} \cup {<<a>> : a \in EncodingNames}
    \cup {<<a, b>> : a, b \in EncodingNames}

\* A payload that gzip packs and a payload it does not.
Mixed == Zeros(MaxBody - 2) \o <<1>>

EncodingRequests ==
    {Declared(ts, st, Mixed) : ts \in TokenLists, st \in Styles}
    \cup {Chunked(ts, "spaced", Ones(1)) :
             ts \in {<<S_deflate, S_gzip>>, <<S_gzip, S_br>>, <<S_br, S_gzip>>}}
    \cup {Declared(ts, "spaced", Mixed) :
             ts \in {<<S_gzip, S_deflate, S_gzip>>, <<S_deflate, S_gzip, S_br>>}}
    \cup {Declared(<<S_br>>, "tight", <<>>)}

EncodingOptions ==
    {<<DisableEncoding(S_gzip)>>, <<SupportEncoding(S_br, "DeflateEncodingReader")>>}

EncodingScenarios ==
    {One(<<ReturnOnError>>, [e EXCEPT !.options = EncodingOptions]) :
        e \in EncodingRequests}
    \cup {One(d, [e EXCEPT !.options = EncodingOptions]) :
             d \in {<<RequireContentLength(TRUE)>>, <<ContentLengthLimit(1)>>,
                    <<ReturnOnError, ContentLengthLimit(-1)>>},
             e \in {Chunked(<<S_gzip, S_br>>, "spaced", Ones(1)),
                    Declared(<<S_br>>, "padded", Mixed),
                    Lively(Declared(<<S_gzip, S_deflate, S_gzip>>, "spaced", Mixed))}}

InitEncoding == \E sc \in EncodingScenarios : Start(sc)

SpecEncoding == InitEncoding /\ [][Next]_vars

\* The names in the map of encodings after a list of options.
RECURSIVE NamesAfter(_, _)
NamesAfter(opts, names) ==
    IF opts = <<>> THEN names
    ELSE NamesAfter(Tail(opts),
                    CASE Head(opts).op = "SupportEncoding" ->
                            names \cup {Head(opts).name}
                      [] Head(opts).op = "DisableEncoding" ->
                            names \ {Head(opts).name}
                      [] OTHER -> names)

\* The names r's initialisation finds in the map, with one request served.
NamesAtInit(r) ==
    NamesAfter(hist[r].before,
               NamesAfter(env.defaults, {S_gzip, S_xgzip, S_deflate}))

\* The positions of the header's encodings that the map does not have.
Unknown(r) ==
    {i \in 1..Len(env.req[r].tokens) : env.req[r].tokens[i] \notin NamesAtInit(r)}

FirstUnknown(r) ==
    env.req[r].tokens[CHOOSE i \in Unknown(r) : \A j \in Unknown(r) : i <= j]

RequiredAtInit(r) ==
    RequiredAfter(hist[r].before, RequiredAfter(env.defaults, FALSE))

\* The checks init makes before it looks at the header let r through.
PassesLengthChecks(r) ==
    /\ env.req[r].contentLength # 0
    /\ ~(env.req[r].contentLength < 0 /\ RequiredAtInit(r))
    /\ ~(CeilingAtInit(r) >= 0 /\ env.req[r].contentLength > CeilingAtInit(r))

C8_Rejected(r) ==
    /\ lazy[r].initErr = RequestUnsupportedMediaTypeError(FirstUnknown(r))
    /\ hist[r].called = <<>>
    /\ hist[r].delivered = <<>>
    /\ \A o \in Reads(r) : o.n = 0

(***************************************************************************)
(* C8 as stated: if an encoding of the header, at any position, is not in  *)
(* the map of supported encodings, the initialisation fails with           *)
(* UnsupportedEncoding for the first such encoding, trimmed; no decoder    *)
(* is built and no byte is delivered.                                      *)
(***************************************************************************)
C8_UnknownEncodingRejected_Original ==
    \A r \in Requests :
        (hist[r].finished >= 1 /\ Unknown(r) # {}) => C8_Rejected(r)

(***************************************************************************)
(* C8 as amended: the same, for a request that passes the checks init      *)
(* makes first: its declared length is not zero, is present when           *)
(* required, and is not above the ceiling.  (A declared length of zero     *)
(* skips the header; a missing required length and a length above the      *)
(* ceiling fail with LengthRequired and BodyTooLarge.)                     *)
(***************************************************************************)
C8_UnknownEncodingRejected ==
    \A r \in Requests :
        (hist[r].finished >= 1 /\ Unknown(r) # {} /\ PassesLengthChecks(r)) =>
            C8_Rejected(r)

\* An unsupported encoding written after a supported one, with spaces around
\* it, has been rejected on Read.
C8_Witness ==
    \E r \in Requests :
        /\ hist[r].finished >= 1 /\ PassesLengthChecks(r)
        /\ env.req[r].tokens = <<S_gzip, S_br>>
        /\ env.req[r].contentEncoding # HeaderOf(env.req[r].tokens, "tight")
        /\ Unknown(r) = {2}
        /\ \E o \in Reads(r) : o.err = RequestUnsupportedMediaTypeError(S_br)

(***************************************************************************)
(* C9: for encodings e1 .. en that are all supported, applied in that      *)
(* order to a body and declared in that order, init builds the decoders in *)
(* the reverse order, the decoder of en on the stream of the request, and  *)
(* reading gives back the bytes the client encoded.  (The request is one   *)
(* the policy admits: its length is declared or not required, and its      *)
(* declared and decoded lengths are within the ceiling.)                   *)
(***************************************************************************)
\* The decoders of the header's encodings, the last encoding's first.
Decoders(r) ==
    LET ts == env.req[r].tokens
    IN  [i \in 1..Len(ts) |-> ClientCodec(ts[Len(ts) + 1 - i])]

\* r's body is its payload under the encodings of its header, sent whole.
WellFormed(r) ==
    /\ env.req[r].body = MkStream(Wire(env.req[r].tokens, env.req[r].payload), "EOF")
    /\ env.req[r].contentEncoding \in
          {HeaderOf(env.req[r].tokens, st) : st \in Styles}

Admitted(r) ==
    /\ PassesLengthChecks(r)
    /\ CeilingAtInit(r) >= 0 => Len(env.req[r].payload) <= CeilingAtInit(r)

C9_RoundTrip ==
    \A r \in Requests :
        (/\ hist[r].finished >= 1 /\ OnlyReads(r)
         /\ WellFormed(r) /\ Unknown(r) = {} /\ Admitted(r)) =>
            /\ lazy[r].initErr = Nil
            /\ hist[r].called = Decoders(r)
            /\ lazy[r].reader.layers = Decoders(r)
            /\ ReadsSucceed(r)

\* The body of the tests, gzip over deflate, has been read to its end.
C9_Witness ==
    \E r \in Requests :
        /\ hist[r].finished >= 1 /\ OnlyReads(r) /\ WellFormed(r) /\ Admitted(r)
        /\ env.req[r].tokens = <<S_deflate, S_gzip>>
        /\ hist[r].called = <<"GZipEncodingReader", "DeflateEncodingReader">>
        /\ ReadToEnd(r)
        /\ hist[r].delivered = env.req[r].payload
        /\ Len(hist[r].delivered) >= 2

(***************************************************************************)
(* C11: once the initialisation has recorded an error, every Read, the     *)
(* first and the later ones, delivers no byte and ends with that error,    *)
(* the error stays the same, and the stream of the request is not asked    *)
(* for bytes.                                                              *)
(***************************************************************************)
\* The step is a call of r that ends: its outcome.
Ends(r) == Len(hist[r].outcomes') = Len(hist[r].outcomes) + 1
Ended(r) == hist[r].outcomes'[Len(hist[r].outcomes')]

C11_DeferredErrorReplayed ==
    [][\A r \in Requests :
          (hist[r].finished >= 1 /\ lazy[r].initErr # Nil) =>
              /\ lazy[r].initErr' = lazy[r].initErr
              /\ hist[r].pulled' = hist[r].pulled
              /\ hist[r].delivered' = hist[r].delivered
              /\ (Ends(r) /\ Ended(r).call = "Read") =>
                    Ended(r).n = 0 /\ Ended(r).err = lazy[r].initErr]_vars

\* Two Reads have ended with the error of the initialisation.
C11_Witness ==
    \E r \in Requests :
        /\ hist[r].finished >= 1 /\ lazy[r].initErr # Nil
        /\ Len(hist[r].outcomes) >= 2
        /\ \A i \in 1..2 :
              /\ hist[r].outcomes[i].call = "Read"
              /\ hist[r].outcomes[i].err = lazy[r].initErr
              /\ hist[r].outcomes[i].n = 0

(***************************************************************************)
(* C12 as stated: with the default, status-only handler, when a Read or    *)
(* Close ends with a request body error, the status of the response is the *)
(* code the error recommends (400, 413, 411, 415) and the middleware       *)
(* writes no body.                                                         *)
(***************************************************************************)
StatusOnly(r) == {o \in Panics(r) : o.strategy = "StatusOnlyRequestBodyErrorHandler"}

\* The code each kind of error recommends, as the claim lists them.
C12_Code(err) ==
    CASE err.kind = "BadRequestError" -> 400
      [] err.kind = "RequestContentTooLargeError" -> 413
      [] err.kind = "RequestContentLengthRequiredError" -> 411
      [] err.kind = "RequestUnsupportedMediaTypeError" -> 415

\* What the middleware has written into the body of the response.
MiddlewareBody(r) == SelectSeq(resp[r].body, LAMBDA x : x # "handler")

C12_StatusOnlyWritesCode_Original ==
    \A r \in Requests :
        phase[r] = "done" =>
            \A o \in StatusOnly(r) :
                /\ resp[r].status = C12_Code(o.err)
                /\ MiddlewareBody(r) = <<>>

(***************************************************************************)
(* C12 as amended: the same, when nothing was written to the response      *)
(* before the error; a status the inner handler has written before it      *)
(* stands, and the middleware adds nothing to the response.                *)
(***************************************************************************)
C12_StatusOnlyWritesCode ==
    \A r \in Requests :
        phase[r] = "done" =>
            \A o \in StatusOnly(r) :
                /\ hist[r].handled = <<"StatusOnlyRequestBodyErrorHandler">>
                /\ hist[r].handledWith = <<o.err>>
                /\ MiddlewareBody(r) = <<>>
                /\ IF budget[r].wrote
                   THEN resp[r].status \in env.req[r].codes
                   ELSE resp[r] = [NoResponse EXCEPT !.status = C12_Code(o.err)]

\* A Read has ended with BodyTooLarge under the default handler and the
\* response has the status 413 and nothing else.
C12_Witness ==
    \E r \in Requests : \E o \in StatusOnly(r) :
        /\ phase[r] = "done" /\ ~budget[r].wrote
        /\ o.err.kind = "RequestContentTooLargeError"
        /\ resp[r] = [NoResponse EXCEPT !.status = StatusRequestEntityTooLarge]

\* Each of the four kinds of error has been answered by the default handler.
C12_WitnessKinds ==
    {k \in {"BadRequestError", "RequestContentTooLargeError",
            "RequestContentLengthRequiredError",
            "RequestUnsupportedMediaTypeError"} :
        \E r \in Requests : \E o \in StatusOnly(r) :
            phase[r] = "done" /\ o.err.kind = k}

(***************************************************************************)
(* C13 as stated: with a custom error handler, a Read that ends with a     *)
(* request body error stops the inner handler there, so that it writes     *)
(* nothing of its own; the middleware calls the custom handler once, with  *)
(* that error, and the response is the one the custom handler writes.      *)
(***************************************************************************)
Custom(r) == {o \in Panics(r) : o.strategy = "Custom" /\ o.call = "Read"}

\* What the custom handler writes into a response.
CustomWrites(w) == [w EXCEPT !.status = IF @ = 0 THEN StatusTeapot ELSE @,
                             !.body = Append(@, "custom")]

C13_CustomHandlerAnswers_Original ==
    \A r \in Requests :
        (phase[r] = "done" /\ Custom(r) # {}) =>
            /\ hist[r].handled = <<"Custom">>
            /\ resp[r] = CustomWrites(NoResponse)

(***************************************************************************)
(* C13 as amended: with a custom error handler, a Read in the goroutine    *)
(* that serves the request that ends with a request body error stops the   *)
(* inner handler there: it makes no further call, sets no option and       *)
(* writes nothing more.  The middleware calls the custom handler once,     *)
(* with that error, and the response is what the inner handler had written *)
(* before the Read followed by what the custom handler writes: the custom  *)
(* handler's own response when the inner handler had written nothing.      *)
(***************************************************************************)
C13_CustomHandlerAnswers ==
    [][\A r \in Requests : \A o \in Custom(r) :
          /\ hist[r].outcomes' = hist[r].outcomes
          /\ o = hist[r].outcomes[Len(hist[r].outcomes)]
          /\ budget[r]' = budget[r]
          /\ lazy[r]' = lazy[r]
          /\ hist[r].before' = hist[r].before /\ hist[r].after' = hist[r].after
          /\ Len(hist[r].handled') <= 1
          /\ IF phase[r] = "panicked" /\ phase[r]' # phase[r]
             THEN /\ phase[r]' = "done"
                  /\ hist[r].handled' = <<"Custom">>
                  /\ hist[r].handledWith' = <<o.err>>
                  /\ resp[r]' = CustomWrites(resp[r])
                  /\ ~budget[r].wrote => resp[r]' = CustomWrites(NoResponse)
             ELSE /\ resp[r]' = resp[r]
                  /\ hist[r].handled' = hist[r].handled]_vars

\* The custom handler has answered a Read that ended with an error, and the
\* inner handler had written nothing.
C13_Witness ==
    \E r \in Requests : \E o \in Custom(r) :
        /\ phase[r] = "done"
        /\ hist[r].handledWith = <<o.err>>
        /\ resp[r] = CustomWrites(NoResponse)

\* The same after the inner handler had written its response.
C13_WitnessWritten ==
    \E r \in Requests : \E o \in Custom(r) :
        /\ phase[r] = "done" /\ budget[r].wrote
        /\ resp[r].body = <<"handler", "custom">>

OptionsRequest ==
    [Lively(Declared(<<>>, "tight", Ones(1)))
        EXCEPT !.method = "OPTIONS",
               !.options = {<<DisableEncoding(S_deflate)>>}]

\* The encodings a middleware is built with.
OptionsDefaults ==
    {<<>>,
     <<DisableEncoding(S_gzip)>>,
     <<DisableEncoding(S_xgzip)>>,
     <<SupportEncoding(S_br, "DeflateEncodingReader")>>,
     <<SupportEncoding(S_xgzip, "GZipEncodingReader")>>,
     <<DisableEncoding(S_gzip), DisableEncoding(S_deflate)>>,
     <<SupportEncoding(S_br, "DeflateEncodingReader"), DisableEncoding(S_deflate)>>,
     <<SupportEncoding(S_br, "DeflateEncodingReader"),
       SupportEncoding(S_xgzip, "GZipEncodingReader")>>}

OptionsScenarios ==
    {One(d, OptionsRequest) : d \in OptionsDefaults}
    \cup {One(<<>>, [OptionsRequest EXCEPT !.method = "POST"])}
    \cup {Two(<<>>,
              [Declared(<<>>, "tight", Ones(1))
                  EXCEPT !.options =
                      {<<SupportEncoding(S_br, "DeflateEncodingReader")>>}],
              [Declared(<<>>, "tight", <<>>) EXCEPT !.method = "OPTIONS"])}

InitOptions == \E sc \in OptionsScenarios : Start(sc)

SpecOptions == InitOptions /\ [][Next]_vars

(***************************************************************************)
(* C15: the Accept-Encoding header of the response to an OPTIONS request   *)
(* lists the encodings registered with the middleware that are not         *)
(* aliases, in lexicographic order, separated by a comma and a space; no   *)
(* alias is listed, and with the encodings the middleware starts with the  *)
(* value is "deflate, gzip".                                               *)
(***************************************************************************)
\* The map of the middleware when a request arrives.
Registered == heap[defaultOptions.supportedEncodings]
NotAlias == {name \in DOMAIN Registered : ~Registered[name].alias}

\* The sequences that list each name of a set once, in lexicographic order.
Sorted(names) ==
    {q \in [1..Cardinality(names) -> names] :
        \A i, j \in 1..Cardinality(names) : i < j => StrLess(q[i], q[j])}

\* The names of q written one after the other with ", " between them.
RECURSIVE Listing(_)
Listing(q) ==
    IF q = <<>> THEN <<>>
    ELSE IF Len(q) = 1 THEN q[1]
    ELSE Listing(SubSeq(q, 1, Len(q) - 1)) \o <<",", " ">> \o q[Len(q)]

C15_Arrives(r) ==
    phase[r] = "pending" /\ phase[r]' = "serving" /\ env.req[r].method = "OPTIONS"

C15_AcceptEncoding ==
    [][\A r \in Requests :
          C15_Arrives(r) =>
              /\ \E q \in Sorted(NotAlias) : resp[r]'.acceptEncoding = Listing(q)
              /\ Registered = DefaultEncodings =>
                    resp[r]'.acceptEncoding =
                        <<"d", "e", "f", "l", "a", "t", "e", ",", " ",
                          "g", "z", "i", "p">>]_vars

\* An OPTIONS request has been answered by a middleware with its initial
\* encodings, and one by a middleware with three encodings that are not
\* aliases.
C15_Witness ==
    \E r \in Requests :
        /\ env.req[r].method = "OPTIONS" /\ phase[r] = "serving"
        /\ env.defaults = <<>>
        /\ resp[r].acceptEncoding = S_deflate \o <<",", " ">> \o S_gzip

C15_WitnessThree ==
    \E r \in Requests :
        /\ env.req[r].method = "OPTIONS" /\ phase[r] = "serving"
        /\ resp[r].acceptEncoding =
              S_br \o <<",", " ">> \o S_deflate \o <<",", " ">> \o S_gzip

(***************************************************************************)
(* C16: with the ceiling set to zero nothing is too large: no Read ends    *)
(* with BodyTooLarge, whatever the declared length and the decoded size,   *)
(* and the encodings of the header are decoded.                            *)
(***************************************************************************)
C16_ZeroDisablesCeiling ==
    \A r \in Requests :
        (hist[r].finished >= 1 /\ CeilingAtInit(r) = 0) =>
            /\ lazy[r].initErr.kind # "RequestContentTooLargeError"
            /\ TooLarge(r) = {}
            /\ (/\ WellFormed(r) /\ Unknown(r) = {}
                /\ env.req[r].contentLength # 0
                /\ ~(env.req[r].contentLength < 0 /\ RequiredAtInit(r))) =>
                  hist[r].called = Decoders(r)

\* The part of C16 that the code has: with the ceiling zero a body whose
\* length is not declared is never too large.
C16_UndeclaredUnlimited ==
    \A r \in Requests :
        (/\ hist[r].finished >= 1 /\ CeilingAtInit(r) = 0
         /\ env.req[r].contentLength < 0) =>
            /\ TooLarge(r) = {}
            /\ ~lazy[r].reader.limited

(***************************************************************************)
(* C17: with a ceiling L > 0 and a body that passes the check of the       *)
(* declared length, the Reads deliver at most L decoded bytes in all, and  *)
(* the Read in which the decoders produce byte L + 1 ends with             *)
(* BodyTooLarge(L), also when the body is shorter than L on the wire.      *)
(***************************************************************************)
\* r has a ceiling above zero and has passed the check of its length.
Guarded(r) ==
    /\ hist[r].finished >= 1
    /\ CeilingAtInit(r) > 0
    /\ env.req[r].contentLength <= CeilingAtInit(r)
    /\ lazy[r].initErr = Nil

\* The goroutine of r that is about to read from the reader, asking for more
\* bytes than the ceiling leaves.
Crossing(r, t) ==
    /\ pc[r][t].at = "read" /\ Ends(r)
    /\ WellFormed(r) /\ ~rawClosed[r]
    /\ Len(env.req[r].payload) > CeilingAtInit(r)
    /\ Len(hist[r].delivered) + pc[r][t].k > CeilingAtInit(r)

C17_DecodedBytesBounded ==
    [][\A r \in Requests :
          Guarded(r) =>
              /\ Len(hist[r].delivered) <= CeilingAtInit(r)
              /\ Len(hist[r].delivered') <= CeilingAtInit(r)
              /\ \A o \in TooLarge(r) :
                    o.err = RequestContentTooLargeError(CeilingAtInit(r))
              /\ \A t \in Goroutines :
                    Crossing(r, t) =>
                        /\ Ended(r).err =
                              RequestContentTooLargeError(CeilingAtInit(r))
                        /\ Ended(r).how = "return" =>
                              Len(hist[r].delivered') = CeilingAtInit(r)]_vars

\* A gzip body shorter than the ceiling on the wire has been read up to the
\* ceiling, and the Read that went past it has ended with BodyTooLarge.
C17_Witness ==
    \E r \in Requests :
        /\ Guarded(r) /\ WellFormed(r)
        /\ env.req[r].tokens = <<S_gzip>>
        /\ env.req[r].contentLength < CeilingAtInit(r)
        /\ Len(hist[r].delivered) = CeilingAtInit(r)
        /\ TooLarge(r) # {}

(***************************************************************************)
(* C18: options set after the initialisation has run change nothing of     *)
(* what it built: the chain of decoders, the limit of the bytes read and   *)
(* the recorded error stay as they are, whichever limit, length            *)
(* requirement or encodings are set.                                       *)
(***************************************************************************)
\* What the initialisation has built for r.
Pipeline(r) == <<lazy[r].reader.layers, lazy[r].reader.limited,
                 lazy[r].reader.limit, lazy[r].initErr>>

C18_LateOptionsIgnored ==
    [][\A r \in Requests :
          hist[r].finished >= 1 =>
              /\ Pipeline(r)' = Pipeline(r)
              /\ hist[r].after' # hist[r].after =>
                    lazy[r].reader' = lazy[r].reader
              /\ lazy[r].reader.limited =>
                    lazy[r].reader.limit = CeilingAtInit(r)
              /\ \A o \in TooLarge(r) : o.err.limit = CeilingAtInit(r)]_vars

\* After the initialisation the handler has set another limit, and a Read of
\* the encoded body has ended with BodyTooLarge for the limit of the
\* initialisation.
C18_Witness ==
    \E r \in Requests :
        /\ hist[r].finished >= 1
        /\ hist[r].after # <<>>
        /\ lazy[r].reader.limited
        /\ lazy[r].reader.layers # <<>>
        /\ lazy[r].options.maxContentLength # lazy[r].reader.limit
        /\ \E o \in TooLarge(r) :
              o.err.limit # lazy[r].options.maxContentLength /\ o.call = "Read"

(***************************************************************************)
(* C19: SetRequestBodyOption with a nil request, or with a request that    *)
(* has no options attached because it did not come through the middleware, *)
(* changes nothing.  Otherwise it applies the options to the options of    *)
(* that request in the order given: of the options that set the same       *)
(* field, the last one wins.                                               *)
(***************************************************************************)
\* The options applied to the options of r so far, the defaults first.
Applied(r) == env.defaults \o hist[r].before \o hist[r].after

\* The last option of a list that is made by one of the constructors ops
\* (and names the encoding name, when name is not empty); 0 if there is none.
LastOf(all, ops, name) ==
    LET S == {i \in 1..Len(all) :
                 all[i].op \in ops /\ (name # <<>> => all[i].name = name)}
    IN  IF S = {} THEN 0 ELSE CHOOSE i \in S : \A j \in S : j <= i

LastWins(r) ==
    LET all == Applied(r)
        c == LastOf(all, {"ContentLengthLimit"}, <<>>)
        q == LastOf(all, {"RequireContentLength"}, <<>>)
        h == LastOf(all, {"HandleRequestBodyError", "ReturnOnError"}, <<>>)
        o == lazy[r].options
        m == heap[o.supportedEncodings]
    IN  /\ o.maxContentLength = IF c = 0 THEN DefaultLimit ELSE all[c].n
        /\ o.requireContentLength = IF q = 0 THEN FALSE ELSE all[q].b
        /\ o.handleError =
              IF h = 0 THEN "StatusOnlyRequestBodyErrorHandler"
              ELSE IF all[h].op = "ReturnOnError" THEN "nil" ELSE all[h].handler
        /\ \A name \in EncodingNames :
              LET e == LastOf(all, {"SupportEncoding", "DisableEncoding"}, name)
              IN  IF e = 0
                  THEN /\ name \in DOMAIN m <=> name \in DOMAIN DefaultEncodings
                       /\ name \in DOMAIN m => m[name] = DefaultEncodings[name]
                  ELSE IF all[e].op = "DisableEncoding"
                  THEN name \notin DOMAIN m
                  ELSE /\ name \in DOMAIN m
                       /\ m[name] = MkEncoding(all[e].reader, FALSE)

\* The state of the middleware and of the requests, but for the counters of
\* the model.
Program == <<defaultOptions, heap, env, phase, lazy, rawClosed, resp, pc,
             panicValue, crashed, result>>

C19_OptionsApplyInOrder ==
    [][\A r \in Requests :
          /\ hist[r].detached' # hist[r].detached => Program' = Program
          /\ phase[r] \notin {"pending", "absent"} => LastWins(r)
          /\ phase[r]' \notin {"pending", "absent"} => LastWins(r)']_vars

\* The handler has set the limit twice in one call and the second limit
\* stands.
C19_Witness ==
    \E r \in Requests :
        /\ hist[r].before = <<ContentLengthLimit(1), ContentLengthLimit(3)>>
        /\ lazy[r].options.maxContentLength = 3
        /\ hist[r].finished >= 1

\* The handler has called SetRequestBodyOption with a request without options.
C19_WitnessDetached ==
    \E r \in Requests : hist[r].detached >= 1 /\ phase[r] = "done"

(***************************************************************************)
(* C20: Close with a deferred error returns that error through the error   *)
(* strategy and does not close the stream of the request.  Without a       *)
(* deferred error it closes the reader the body holds: the pipeline the    *)
(* initialisation built or, where the initialisation left the reader as it *)
(* was, the stream of the request itself.                                  *)
(***************************************************************************)
\* What a Close of r that ends in this step has done; untouched tells
\* whether r's reader is taken to be still the stream of the request.
C20_Closes(r, untouched) ==
    LET out == Ended(r)
        rd == lazy[r].reader
    IN  IF lazy[r].initErr # Nil
        THEN /\ out.err = lazy[r].initErr
             /\ out.strategy = lazy[r].options.handleError
             /\ out.how = IF out.strategy = "nil" THEN "return" ELSE "panic"
             /\ rawClosed'[r] = rawClosed[r]
        ELSE /\ out.how = "return"
             /\ IF untouched
                THEN /\ rd.layers = <<>> /\ ~rd.limited
                     /\ rawClosed'[r]
                     /\ out.err = IF env.req[r].closeFails
                                  THEN RawError("close") ELSE Nil
                ELSE /\ hist[r].finished >= 1
                     /\ rd.layers = hist[r].called
                     /\ rd.limited <=> CeilingAtInit(r) > 0
                     /\ rawClosed'[r] <=> (rawClosed[r] \/ rd.layers = <<>>)

C20_WitnessPipeline ==
    \E r \in Requests : \E o \in Outcomes(r) :
        /\ o.call = "Close"
        /\ lazy[r].initErr = Nil
        /\ lazy[r].reader.layers # <<>>
        /\ ~rawClosed[r]

\* A Close has closed the stream of a request with an empty body after a Read.
C20_WitnessEmpty ==
    \E r \in Requests :
        /\ env.req[r].contentLength = 0
        /\ hist[r].finished >= 1
        /\ \E o \in Outcomes(r) : o.call = "Close"
        /\ rawClosed[r]

\* A Close before the first Read has closed the stream of a request whose
\* body is not empty.
C20_WitnessUnread ==
    \E r \in Requests :
        /\ env.req[r].contentLength # 0
        /\ hist[r].inits = 0
        /\ \E o \in Outcomes(r) : o.call = "Close"
        /\ rawClosed[r]

(***************************************************************************)
(* One request whose header names encodings the client did not apply, so   *)
(* that several of init's checks can fail for the same request.            *)
(***************************************************************************)
\* The request e with the header of the encodings ts in place of its own.
Mislabelled(ts, style, e) ==
    [e EXCEPT !.contentEncoding = HeaderOf(ts, style), !.tokens = ts]

OrderRequests ==
    {Mislabelled(<<S_br, S_gzip>>, "spaced", Chunked(<<>>, "tight", Ones(2))),
     Mislabelled(<<S_gzip, S_br>>, "tight", Declared(<<>>, "tight", Ones(2))),
     Mislabelled(<<S_gzip>>, "padded", Declared(<<>>, "tight", Ones(2))),
     Mislabelled(<<S_gzip, S_deflate>>, "tight", Declared(<<>>, "tight", Ones(2))),
     Mislabelled(<<S_deflate, S_gzip>>, "spaced", Chunked(<<>>, "tight", Ones(1))),
     Declared(<<S_gzip>>, "tight", Ones(1)),
     Mislabelled(<<S_br, S_gzip>>, "spaced", Declared(<<>>, "tight", <<>>)),
     Lively(Mislabelled(<<S_br>>, "tight", Declared(<<>>, "tight", Ones(2))))}

OrderOptions ==
    {<<SupportEncoding(S_br, "DeflateEncodingReader")>>,
     <<ContentLengthLimit(-1)>>, <<RequireContentLength(FALSE)>>,
     <<ContentLengthLimit(0), RequireContentLength(TRUE)>>,
     <<HandleRequestBodyError("Custom")>>, <<ReturnOnError>>}

OrderDefaults ==
    {<<ReturnOnError>>, <<ReturnOnError, RequireContentLength(TRUE)>>,
     <<ContentLengthLimit(1)>>,
     <<RequireContentLength(TRUE), ContentLengthLimit(1)>>}

OrderScenarios ==
    {One(d, [e EXCEPT !.options = OrderOptions]) :
        d \in OrderDefaults, e \in OrderRequests}

InitOrder == \E sc \in OrderScenarios : Start(sc)

SpecOrder == InitOrder /\ [][Next]_vars

\* The position of the first decoder of a chain whose constructor fails on
\* the stream it is given; 0 when every constructor succeeds.
RECURSIVE FailsAt(_, _)
FailsAt(kinds, stream) ==
    IF kinds = <<>> THEN 0
    ELSE LET w == EncodingReader(Head(kinds), stream)
         IN  IF ~w.ok THEN 1
             ELSE LET k == FailsAt(Tail(kinds), w.stream)
                  IN  IF k = 0 THEN 0 ELSE k + 1

\* The conditions under which the checks of init fail for r, each taken on
\* its own, with the options r's initialisation finds.
C21_NoLength(r) == env.req[r].contentLength < 0 /\ RequiredAtInit(r)
C21_Above(r) ==
    CeilingAtInit(r) >= 0 /\ env.req[r].contentLength > CeilingAtInit(r)
C21_Unknown(r) == Unknown(r) # {}
C21_Broken(r) == FailsAt(Decoders(r), env.req[r].body)

\* The error the order of the claim gives r, and the constructors called.
C21_Expected(r) ==
    IF C21_NoLength(r)
    THEN [err |-> RequestContentLengthRequiredError, called |-> <<>>]
    ELSE IF C21_Above(r)
    THEN [err |-> RequestContentTooLargeError(CeilingAtInit(r)), called |-> <<>>]
    ELSE IF C21_Unknown(r)
    THEN [err |-> RequestUnsupportedMediaTypeError(FirstUnknown(r)),
          called |-> <<>>]
    ELSE IF C21_Broken(r) > 0
    THEN [err |-> BadRequestError("constructor"),
          called |-> SubSeq(Decoders(r), 1, C21_Broken(r))]
    ELSE [err |-> Nil, called |-> Decoders(r)]

(***************************************************************************)
(* C21: the checks of the initialisation run in a fixed order and stop at  *)
(* the first that fails, which alone gives the deferred error: a missing   *)
(* required length comes before a declared length above the ceiling, that  *)
(* before an unsupported encoding, that before a decoder whose constructor *)
(* fails; no constructor is called after the first failure.  (For a        *)
(* request whose declared length is not zero: a length of zero skips every *)
(* check.  The stream of the request is open: a Close before the first     *)
(* Read closes it, and a gzip constructor then fails on any body.)         *)
(***************************************************************************)
C21_ChecksInOrder ==
    \A r \in Requests :
        (hist[r].finished >= 1 /\ env.req[r].contentLength # 0
         /\ ~rawClosed[r]) =>
            /\ lazy[r].initErr = C21_Expected(r).err
            /\ hist[r].called = C21_Expected(r).called
            /\ hist[r].finished = 1

\* Three checks would fail for one request, and the first in the order has
\* given the error: no length though required, an unsupported encoding, and
\* a body that is not gzip under a gzip header.
C21_Witness ==
    \E r \in Requests :
        /\ hist[r].finished >= 1
        /\ C21_NoLength(r) /\ C21_Unknown(r)
        /\ FailsAt(<<"GZipEncodingReader">>, env.req[r].body) = 1
        /\ \E o \in Reads(r) : o.err = RequestContentLengthRequiredError

\* A length above the ceiling with an unsupported encoding.
C21_WitnessAbove ==
    \E r \in Requests :
        /\ hist[r].finished >= 1
        /\ C21_Above(r) /\ C21_Unknown(r)
        /\ lazy[r].initErr.kind = "RequestContentTooLargeError"

\* An unsupported encoding with a decoder that would fail.
C21_WitnessUnknown ==
    \E r \in Requests :
        /\ hist[r].finished >= 1
        /\ ~C21_NoLength(r) /\ ~C21_Above(r) /\ C21_Unknown(r)
        /\ FailsAt(<<"GZipEncodingReader">>, env.req[r].body) = 1
        /\ lazy[r].initErr.kind = "RequestUnsupportedMediaTypeError"

\* The second constructor of a chain has failed.
C21_WitnessBroken ==
    \E r \in Requests :
        /\ hist[r].finished >= 1
        /\ lazy[r].initErr = BadRequestError("constructor")
        /\ Len(hist[r].called) = 2

(***************************************************************************)
(* C22: with a declared length of exactly zero the initialisation records  *)
(* no deferred error and builds no pipeline, whatever the options and the  *)
(* header are (length required, any ceiling, an unsupported encoding, a    *)
(* decoder that would fail), and Read delivers no bytes.  (The request is  *)
(* one a server hands over: a declared length of zero comes with an empty  *)
(* stream, which is what the untouched reader reads.)                       *)
(***************************************************************************)
C22_ZeroLengthSkipsInit ==
    \A r \in Requests :
        (hist[r].finished >= 1 /\ env.req[r].contentLength = 0) =>
            /\ lazy[r].initErr = Nil
            /\ hist[r].called = <<>>
            /\ lazy[r].reader.layers = <<>> /\ ~lazy[r].reader.limited
            /\ hist[r].delivered = <<>>
            /\ \A o \in Reads(r) : o.n = 0 /\ o.err.kind # "RequestContentLengthRequiredError"
                                   /\ o.err.kind # "RequestUnsupportedMediaTypeError"
                                   /\ o.err.kind # "RequestContentTooLargeError"

\* A request of length zero with an unsupported encoding and a gzip header
\* over an empty stream, read to its end with the length required and the
\* ceiling at zero.
C22_Witness ==
    \E r \in Requests :
        /\ hist[r].finished >= 1 /\ env.req[r].contentLength = 0
        /\ RequiredAtInit(r) /\ CeilingAtInit(r) = 0
        /\ Unknown(r) # {}
        /\ FailsAt(<<"GZipEncodingReader">>, env.req[r].body) = 1
        /\ \E o \in Reads(r) : o.err = EOF /\ o.how = "return"

(***************************************************************************)
(* C23: a Close that overlaps the initialisation the first Read has        *)
(* started acts on the outcome of that initialisation only: it does not    *)
(* look at the deferred error nor close anything while the function given  *)
(* to once.Do is running, so it returns the deferred error when the        *)
(* initialisation fails and closes the pipeline it builds, not the stream  *)
(* being wrapped, when it succeeds.                                        *)
(***************************************************************************)
\* The function given to once.Do has been started for r and has not returned.
C23_Initialising(r) == hist[r].inits > hist[r].finished

\* What the initialisation in progress is going to leave in r's lazyReader.
C23_Outcome(r) ==
    InitFunc(lazy[r], heap,
             IF rawClosed[r] THEN MkStream(<<>>, "closed") ELSE env.req[r].body).lr

C23_CloseAwaitsInit ==
    [][\A r \in Requests :
          (Ends(r) /\ Ended(r).call = "Close" /\ C23_Initialising(r)) =>
              /\ C23_Outcome(r).initErr # Nil =>
                    /\ Ended(r).err = C23_Outcome(r).initErr
                    /\ rawClosed'[r] = rawClosed[r]
              /\ (C23_Outcome(r).initErr = Nil
                  /\ C23_Outcome(r).reader.layers # <<>>) =>
                    rawClosed'[r] = rawClosed[r]]_vars

\* A Close has returned while the initialisation was running, has closed
\* the stream of the request, and the initialisation has then failed.
C23_Overlapped ==
    \E r \in Requests : \E o \in Outcomes(r) :
        /\ o.call = "Close" /\ o.err = Nil
        /\ rawClosed[r]
        /\ hist[r].finished = 1
        /\ lazy[r].initErr # Nil
        /\ Reads(r) = {}

(***************************************************************************)
(* C24: as long as the inner handler neither reads nor closes the body the *)
(* initialisation does not run: the inner handler is called for every      *)
(* request, no request body error arises, no decoder constructor is        *)
(* called, the stream of the request is not touched and the middleware     *)
(* writes no status, even for a declared length above the ceiling, a       *)
(* missing required length or an unsupported encoding.                     *)
(***************************************************************************)
\* The inner handler runs or has run for r and has called neither Read nor
\* Close.
C24_BodyUnused(r) ==
    phase[r] \notin {"pending", "absent"} /\ budget[r].calls = 0

\* Nothing of the initialisation has happened for r, and the response holds
\* what the inner handler wrote and nothing else.
C24_Quiet(r) ==
    /\ hist[r].inits = 0 /\ hist[r].finished = 0
    /\ lazy[r].initErr = Nil
    /\ lazy[r].reader = RawReader
    /\ hist[r].called = <<>>
    /\ hist[r].pulled = 0 /\ ~rawClosed[r]
    /\ hist[r].outcomes = <<>> /\ hist[r].handled = <<>>
    /\ ~panicValue[r].other => panicValue[r] = NoPanic
    /\ IF budget[r].wrote
       THEN \E code \in env.req[r].codes :
               resp[r] = Write(WriteHeader(NoResponse, code), "handler")
       ELSE resp[r] = NoResponse

C24_UnusedBodyNoInit ==
    [][\A r \in Requests :
          /\ (phase[r] = "pending" /\ phase[r]' # "pending") =>
                phase[r]' = "serving" /\ resp[r]'.status = 0
          /\ C24_BodyUnused(r)' => C24_Quiet(r)']_vars

\* The inner handler has returned without using a body whose declared
\* length is above the ceiling and whose header has an unsupported encoding.
C24_Witness ==
    \E r \in Requests :
        /\ phase[r] = "done" /\ budget[r].calls = 0
        /\ C21_Above(r) /\ C21_Unknown(r)
        /\ budget[r].wrote /\ resp[r].status = StatusOK

\* The same for a request without the length the options require.
C24_WitnessNoLength ==
    \E r \in Requests :
        /\ phase[r] = "done" /\ budget[r].calls = 0
        /\ C21_NoLength(r) /\ C21_Unknown(r)
        /\ resp[r] = NoResponse

(***************************************************************************)
(* C25: the error strategy is read from the options of the request when an *)
(* error surfaces, not when the initialisation runs: a strategy set after  *)
(* the first Read decides how the request body errors of every later Read  *)
(* and Close are handled, and the handler the middleware calls in the end  *)
(* is the one in force when the error surfaced.                            *)
(***************************************************************************)
\* The strategy in force for r: the last one set, by the defaults or by the
\* inner handler up to now.
C25_Strategy(r) ==
    LET all == Applied(r)
        h == LastOf(all, {"HandleRequestBodyError", "ReturnOnError"}, <<>>)
    IN  IF h = 0 THEN "StatusOnlyRequestBodyErrorHandler"
        ELSE IF all[h].op = "ReturnOnError" THEN "nil" ELSE all[h].handler

C25_StrategyAtSurfacing ==
    [][\A r \in Requests :
          /\ (Ends(r) /\ IsRequestBodyError(Ended(r).err)) =>
                /\ Ended(r).how =
                      IF C25_Strategy(r) = "nil" THEN "return" ELSE "panic"
                /\ Ended(r).how = "panic" =>
                      /\ panicValue[r]'.handler = C25_Strategy(r)
                      /\ panicValue[r]'.err = Ended(r).err
          /\ hist[r].handled' # hist[r].handled =>
                /\ hist[r].handled' = <<C25_Strategy(r)>>
                /\ C25_Strategy(r) # "nil"]_vars

\* The initialisation has failed under the strategy that returns errors, a
\* Read has returned the error, the inner handler has then set a handler of
\* its own, and that handler has been called for the error of a later Read.
C25_Witness ==
    \E r \in Requests :
        /\ hist[r].finished >= 1
        /\ \E i \in 1..Len(hist[r].after) :
              hist[r].after[i] = HandleRequestBodyError("Custom")
        /\ LastOf(env.defaults \o hist[r].before,
                  {"HandleRequestBodyError", "ReturnOnError"}, <<>>) # 0
        /\ Len(hist[r].outcomes) >= 2
        /\ hist[r].outcomes[1].how = "return"
        /\ hist[r].outcomes[1].err = lazy[r].initErr
        /\ lazy[r].initErr # Nil
        /\ hist[r].outcomes[Len(hist[r].outcomes)].how = "panic"
        /\ hist[r].outcomes[Len(hist[r].outcomes)].err = lazy[r].initErr
        /\ hist[r].handled = <<"Custom">>

\* The handler set after the first Read has been called for the deferred
\* error a later Close met.
C25_WitnessClose ==
    \E r \in Requests : \E o \in Outcomes(r) :
        /\ o.call = "Close" /\ o.how = "panic"
        /\ IsRequestBodyError(o.err)
        /\ hist[r].after # <<>>
        /\ o.strategy = "Custom"
        /\ phase[r] = "done"

(***************************************************************************)
(* C26: when the constructor of a decoder fails while init builds the      *)
(* chain of readers, init records a BadRequestError around the             *)
(* constructor's error and stores no reader: the field reader stays the    *)
(* stream of the request, without decoder and without MaxBytesReader, and  *)
(* every later Read delivers no bytes and ends with that error.  (The      *)
(* request passes the checks that come before the constructors.)           *)
(***************************************************************************)
\* A constructor fails for r and no check before the constructors does.
C26_ConstructorFails(r) ==
    /\ env.req[r].contentLength # 0
    /\ ~C21_NoLength(r) /\ ~C21_Above(r) /\ ~C21_Unknown(r)
    /\ C21_Broken(r) > 0

C26_FailedConstructor ==
    \A r \in Requests :
        (hist[r].finished >= 1 /\ ~rawClosed[r] /\ C26_ConstructorFails(r)) =>
            /\ lazy[r].initErr.kind = "BadRequestError"
            /\ lazy[r].initErr.cause = "constructor"
            /\ lazy[r].reader.layers = <<>>
            /\ ~lazy[r].reader.limited
            /\ lazy[r].reader = RawReader
            /\ hist[r].delivered = <<>>
            /\ \A o \in Reads(r) : o.n = 0 /\ o.err = lazy[r].initErr

\* The second constructor of a chain has failed under a positive ceiling and
\* two Reads have ended with the error.
C26_Witness ==
    \E r \in Requests :
        /\ hist[r].finished >= 1 /\ ~rawClosed[r] /\ C26_ConstructorFails(r)
        /\ C21_Broken(r) = 2
        /\ CeilingAtInit(r) > 0
        /\ Len(hist[r].outcomes) >= 2
        /\ \A o \in Outcomes(r) : o.call = "Read" /\ o.how = "return"

(***************************************************************************)
(* C27: a panic of the inner handler that is not a bodyErrorPanic of the   *)
(* middleware goes through the middleware unchanged: the deferred function *)
(* panics again with the value it recovered, calls no error handler and    *)
(* writes nothing to the response for it.                                  *)
(***************************************************************************)
\* The inner handler of r has panicked with a value of its own and the
\* deferred function of the middleware has not run yet.
C27_OwnPanic(r) == phase[r] = "panicked" /\ panicValue[r].other

C27_OtherPanicsPropagate ==
    [][\A r \in Requests :
          /\ (C27_OwnPanic(r) /\ phase[r]' # phase[r]) =>
                /\ phase[r]' = "repanicked"
                /\ panicValue[r]' = panicValue[r]
                /\ resp[r]' = resp[r]
                /\ hist[r].handled' = hist[r].handled
                /\ hist[r].handledWith' = hist[r].handledWith
          /\ phase[r]' = "repanicked" =>
                /\ panicValue[r]'.other
                /\ hist[r].handled' = <<>>
                /\ IF budget[r].wrote'
                   THEN \E code \in env.req[r].codes :
                           resp[r]' = Write(WriteHeader(NoResponse, code), "handler")
                   ELSE resp[r]' = NoResponse]_vars

\* The panic of an inner handler that had read the body and set a handler
\* of its own has left the middleware, and the response is untouched.
C27_Witness ==
    \E r \in Requests :
        /\ phase[r] = "repanicked"
        /\ Reads(r) # {}
        /\ lazy[r].options.handleError # "nil"
        /\ resp[r] = NoResponse

\* The same after the inner handler has written its own response.
C27_WitnessWritten ==
    \E r \in Requests :
        /\ phase[r] = "repanicked"
        /\ budget[r].wrote
        /\ resp[r].status = StatusInternalServerError

====
